---- MODULE Spec2Model ----
(***************************************************************************)
(* HaloClaude: the agent tool loop (agent/executor.py), the context        *)
(* pre-fetch and cache engine (context/injector.py, context/fetcher.py,    *)
(* context/formatter.py, context/parser.py) and the message fixer          *)
(* (proxy/message_fixer.py).                                               *)
(*                                                                         *)
(* Python values are modelled as follows: None is the string "None", a     *)
(* dict is a record or a function on its keys, a list is a sequence, text  *)
(* is a string or a sequence of text pieces (concatenation is \o).         *)
(***************************************************************************)
EXTENDS Integers, Sequences, FiniteSets, TLC

None == "None"

(***************************************************************************)
(* State of one AgentExecutor.run call.                                    *)
(***************************************************************************)
VARIABLES
    pc,               \* "idle", "loop" (loop head), "tools" (between tool
                      \* calls), "await" (a record-store call is awaited), "done"
    in_messages,      \* the arguments of run
    in_tools,
    in_system,
    system,           \* local system
    current_messages, \* local current_messages
    tool_round,       \* local tool_round
    response,         \* local response: the last model response
    tool_calls,       \* local tool_calls of the round
    tool_results,     \* local tool_results of the round
    awaiting,         \* the record-store call awaited by _execute_tool, with
                      \* the tool call it serves
    ret,              \* how run ended: a returned value or a raised exception
    \* history of the run, read by the properties only
    request,          \* request_kwargs of the last model call
    responses,        \* the model responses received so far, in order
    model_failed,     \* whether the last model call raised
    exec_log,         \* one entry per _execute_tool call that has returned
    store_log,        \* one entry per record-store call issued by a tool
    varied            \* the non-default rounds used so far (see MaxVaried)

(***************************************************************************)
(* State of one ContextInjector and of the tasks calling it.               *)
(***************************************************************************)
VARIABLES
    enabled,          \* self.enabled
    cache_ttl,        \* self.cache_ttl
    cache,            \* self._cache: ticket id -> (context, cached_at)
    clock,            \* time.time()
    task,             \* per task: position and locals of inject_context
    callers,          \* the tasks that call inject_context
    hist              \* history: counters read by the properties only

(***************************************************************************)
(* State of one call of a function that keeps no state between calls.      *)
(***************************************************************************)
VARIABLES
    lib_pc,           \* "idle" before the call, "done" after it
    parse_arg,        \* TicketIdParser.parse: the argument system_prompt
    parse_ret,        \* TicketIdParser.parse: the value returned
    extract_arg,      \* _extract_asset_ids: the argument ticket
    extract_ret,      \* _extract_asset_ids: the list returned
    heap_lists,       \* fix_messages: the list objects, each a sequence of
                      \* references to message dicts
    heap_dicts,       \* fix_messages: the message dicts, by reference
    fix_arg,          \* fix_messages: the list passed by the last call
    fix_in,           \* the messages of that list when the call was made
    fix_ret,          \* fix_messages: the list returned by the last call
    fix_calls         \* the calls of fix_messages made so far

exec_vars ==
    <<pc, in_messages, in_tools, in_system, system, current_messages,
      tool_round, response, tool_calls, tool_results, awaiting, ret, request,
      responses, model_failed, exec_log, store_log, varied>>

inj_vars == <<enabled, cache_ttl, cache, clock, task, callers, hist>>

fix_vars == <<heap_lists, heap_dicts, fix_arg, fix_in, fix_ret, fix_calls>>

lib_vars == <<lib_pc, parse_arg, parse_ret, extract_arg, extract_ret, fix_vars>>

vars == <<exec_vars, inj_vars, lib_vars>>

(***************************************************************************)
(* Bounds of the model.                                                    *)
(***************************************************************************)
\* Number of rounds of one run in which the backend or the record store
\* departs from the default behaviour (default: one get_ticket call that
\* succeeds).
MaxVaried == 1

\* The clock (time.time(), in ticks) runs from 0 to MaxTime.
MaxTime == 2

\* Number of inject_context calls made in one behaviour.
MaxCalls == 3

\* Number of record-store calls of the injector that do not answer with the
\* expected record (they raise, or answer with an unexpected value).
MaxFailures == 2

\* Program constant, agent/executor.py line 19.
MAX_TOOL_ROUNDS == 10

(***************************************************************************)
(* The tool dispatch table of AgentExecutor._execute_tool.                 *)
(***************************************************************************)
KnownTools ==
    {"get_ticket", "get_user", "get_user_tickets", "get_client",
     "get_client_tickets", "get_asset", "search_tickets", "search_kb",
     "get_kb_article"}

\* Tool names the model backend may emit that the dispatch does not know.
UnknownTools == {"bogus_tool", "Get_Ticket"}

ToolNames == KnownTools \cup UnknownTools

\* dict.get(key, default)
DictGet(d, key, default) == IF key \in DOMAIN d THEN d[key] ELSE default

\* The subscripted key of each branch, tool_input["..."]: a missing key
\* raises KeyError inside the try block.
RequiredParam(tool_name) ==
    CASE tool_name = "get_ticket"         -> "ticket_id"
      [] tool_name = "get_user"           -> "user_id"
      [] tool_name = "get_user_tickets"   -> "user_id"
      [] tool_name = "get_client"         -> "client_id"
      [] tool_name = "get_client_tickets" -> "client_id"
      [] tool_name = "get_asset"          -> "asset_id"
      [] tool_name = "search_tickets"     -> "query"
      [] tool_name = "search_kb"          -> "query"
      [] tool_name = "get_kb_article"     -> "article_id"

\* Mutant of StoreCall: get_kb_article is dispatched to search_kb.
StoreCallKbSwapped(tool_name, tool_input) ==
    [op |-> IF tool_name = "get_kb_article" THEN "search_kb" ELSE tool_name,
     args |-> <<tool_input[RequiredParam(tool_name)]>>]

\* The record-store call each branch makes, with its arguments.
StoreCall(tool_name, tool_input) ==
    CASE tool_name = "get_ticket" ->
            [op |-> "get_ticket", args |-> <<tool_input["ticket_id"]>>]
      [] tool_name = "get_user" ->
            [op |-> "get_user", args |-> <<tool_input["user_id"]>>]
      [] tool_name = "get_user_tickets" ->
            [op |-> "get_user_tickets",
             args |-> <<tool_input["user_id"],
                        DictGet(tool_input, "count", 10),
                        DictGet(tool_input, "open_only", FALSE)>>]
      [] tool_name = "get_client" ->
            [op |-> "get_client", args |-> <<tool_input["client_id"]>>]
      [] tool_name = "get_client_tickets" ->
            [op |-> "get_client_tickets",
             args |-> <<tool_input["client_id"],
                        DictGet(tool_input, "count", 10),
                        DictGet(tool_input, "open_only", FALSE)>>]
      [] tool_name = "get_asset" ->
            [op |-> "get_asset", args |-> <<tool_input["asset_id"]>>]
      [] tool_name = "search_tickets" ->
            [op |-> "search_tickets",
             args |-> <<tool_input["query"],
                        DictGet(tool_input, "count", 10),
                        DictGet(tool_input, "client_id", None),
                        DictGet(tool_input, "user_id", None)>>]
      [] tool_name = "search_kb" ->
            [op |-> "search_kb",
             args |-> <<tool_input["query"], DictGet(tool_input, "count", 5)>>]
      [] tool_name = "get_kb_article" ->
            [op |-> "get_kb_article", args |-> <<tool_input["article_id"]>>]

\* A Python value with its run-time type: a record whose one field is named
\* after the type (dict, list, int, none, or another type).
PyDict(v) == [dict |-> v]
PyList(v) == [list |-> v]
PyOther(v) == [other |-> v]
PyType(x) == CHOOSE k \in DOMAIN x : TRUE
PyVal(x) == x[PyType(x)]

\* {"error": <message>}
ErrorPayload(msg) == PyDict([error |-> msg])

\* str(KeyError(key)) is the key in quotes.
KeyErrorText(key) == "'" \o key \o "'"

\* Mutant of ExecuteToolBegin: the error of an unknown tool does not name it.
ExecuteToolBeginAnonymous(tool_name, tool_input) ==
    IF tool_name \in KnownTools
    THEN IF RequiredParam(tool_name) \in DOMAIN tool_input
         THEN [kind |-> "await", call |-> StoreCall(tool_name, tool_input)]
         ELSE [kind |-> "return",
               value |-> ErrorPayload(KeyErrorText(RequiredParam(tool_name)))]
    ELSE [kind |-> "return", value |-> ErrorPayload("Unknown tool")]

\* The part of _execute_tool up to its first suspension: the branch taken
\* for the name, the KeyError of a missing subscripted key (caught by the
\* except clause), or the record-store call that is awaited.
ExecuteToolBegin(tool_name, tool_input) ==
    IF tool_name \in KnownTools
    THEN IF RequiredParam(tool_name) \in DOMAIN tool_input
         THEN [kind |-> "await", call |-> StoreCall(tool_name, tool_input)]
         ELSE [kind |-> "return",
               value |-> ErrorPayload(KeyErrorText(RequiredParam(tool_name)))]
    ELSE [kind |-> "return",
          value |-> ErrorPayload("Unknown tool: " \o tool_name)]

\* Mutant of ExecuteToolEnd: the exception of the record store is not caught.
ExecuteToolEndUncaught(outcome) ==
    IF outcome.kind = "ok"
    THEN [kind |-> "return", value |-> outcome.value]
    ELSE [kind |-> "raise", msg |-> outcome.msg]

\* The part of _execute_tool after the awaited call: its value is returned,
\* an exception is caught and returned as {"error": str(e)}.
ExecuteToolEnd(outcome) ==
    IF outcome.kind = "ok"
    THEN [kind |-> "return", value |-> outcome.value]
    ELSE [kind |-> "return", value |-> ErrorPayload(outcome.msg)]

\* json.dumps(result) if isinstance(result, (dict, list)) else str(result)
ToolResultContent(result) ==
    IF PyType(result) \in {"dict", "list"}
    THEN [enc |-> "json", of |-> result]
    ELSE [enc |-> "str", of |-> result]

\* Mutant of ToolResultBlock: every result of a round is tagged with the id
\* of the round's first call.
ToolResultBlockFirstId(tool_call, result) ==
    [type |-> "tool_result",
     tool_use_id |-> <<tool_call.id[1], tool_call.id[2], 1>>,
     content |-> ToolResultContent(result)]

ToolResultBlock(tool_call, result) ==
    [type |-> "tool_result",
     tool_use_id |-> tool_call.id,
     content |-> ToolResultContent(result)]

(***************************************************************************)
(* The model backend (anthropic client) and the record store (HaloClient)   *)
(* as seen by the tool loop: what they may answer.                          *)
(***************************************************************************)
TextBlock(text) == [type |-> "text", text |-> text, citations |-> None]
ToolUseBlock(id, name, input) ==
    [type |-> "tool_use", id |-> id, name |-> name, input |-> input]
ThinkingBlock == [type |-> "thinking", thinking |-> "hmm", signature |-> "sig"]

Message(round, stop_reason, content) ==
    [id |-> <<"msg", round>>, type |-> "message", role |-> "assistant",
     content |-> content, model |-> "claude", stop_reason |-> stop_reason,
     stop_sequence |-> IF stop_reason = "stop_sequence" THEN "END" ELSE None,
     usage |-> [input_tokens |-> round, output_tokens |-> 1,
                cache_read_input_tokens |-> 0]]

\* An input carrying every parameter the tool reads, and the empty input.
FullInput(tool_name) ==
    IF tool_name \in KnownTools
    THEN (RequiredParam(tool_name) :> 7) @@ [count |-> 3]
    ELSE [ticket_id |-> 7]

\* {}
EmptyDict == [k \in {} |-> None]

ToolInputs(tool_name) == {FullInput(tool_name), EmptyDict}

\* Responses that end the loop: the stop reason is not tool_use.  A
\* truncated response may still carry a tool_use block.
FinalResponses(round) ==
    {Message(round, "end_turn", <<TextBlock("answer")>>),
     Message(round, "max_tokens",
             <<TextBlock("cut"),
               ToolUseBlock(<<"toolu", round, 1>>, "get_ticket", [ticket_id |-> 1])>>),
     Message(round, "stop_sequence", <<ThinkingBlock, TextBlock("answer")>>)}

\* The default tool request: one get_ticket call.
DefaultToolResponse(round) ==
    Message(round, "tool_use",
            <<TextBlock("let me look"),
              ToolUseBlock(<<"toolu", round, 1>>, "get_ticket", [ticket_id |-> 1])>>)

\* Other tool requests: two calls around a thinking block, the first to an
\* unknown tool; no tool_use block at all; and, as the first response of a
\* run, two calls that both reach the record store, or one call to any tool
\* with any input.
VariedToolResponses(round) ==
    {Message(round, "tool_use",
             <<ToolUseBlock(<<"toolu", round, 1>>, "bogus_tool", EmptyDict),
               ThinkingBlock,
               ToolUseBlock(<<"toolu", round, 2>>, "get_user", [user_id |-> 2])>>),
     Message(round, "tool_use", <<TextBlock("nothing to call")>>)}
    \cup
    (IF round = 1
     THEN {Message(round, "tool_use",
                   <<ToolUseBlock(<<"toolu", round, 1>>, "get_ticket", [ticket_id |-> 1]),
                     ToolUseBlock(<<"toolu", round, 2>>, "get_asset", [asset_id |-> 7])>>)}
          \cup
          UNION {{Message(round, "tool_use",
                          <<ToolUseBlock(<<"toolu", round, 1>>, n, i)>>) :
                     i \in ToolInputs(n)} : n \in ToolNames}
     ELSE {})

\* What an awaited record-store call may do: return a dict or a list
\* ("default"), return another JSON value ("other"), or raise ("raise").
StoreOutcome(call, how) ==
    IF how = "default"
    THEN IF call.op \in {"get_user_tickets", "get_client_tickets",
                         "search_tickets", "search_kb"}
         THEN [kind |-> "ok", value |-> PyList(<<[id |-> 1]>>)]
         ELSE [kind |-> "ok", value |-> PyDict([id |-> call.args[1]])]
    ELSE IF how = "other"
    THEN [kind |-> "ok", value |-> PyOther(None)]
    ELSE [kind |-> "raise", msg |-> "404 Not Found"]

VariedOutcomes == {"other", "raise"}

(***************************************************************************)
(* AgentExecutor: conversions.                                             *)
(***************************************************************************)
\* _block_to_dict
BlockToDict(block) ==
    IF block.type = "text" THEN [type |-> "text", text |-> block.text]
    ELSE IF block.type = "tool_use"
    THEN [type |-> "tool_use", id |-> block.id, name |-> block.name,
          input |-> block.input]
    ELSE [type |-> block.type]

BlocksToDicts(content) == [i \in 1..Len(content) |-> BlockToDict(content[i])]

\* _response_to_dict
ResponseToDict(resp) ==
    [id |-> resp.id, type |-> resp.type, role |-> resp.role,
     content |-> BlocksToDicts(resp.content), model |-> resp.model,
     stop_reason |-> resp.stop_reason, stop_sequence |-> resp.stop_sequence,
     usage |-> [input_tokens |-> resp.usage.input_tokens,
                output_tokens |-> resp.usage.output_tokens]]

IsSystem(msg) == msg.role = "system"
NotSystem(msg) == ~IsSystem(msg)

\* _extract_system: the turns that are not system turns, and the content of
\* the last system turn (None when there is none).
ExtractSystemFiltered(messages) == SelectSeq(messages, NotSystem)

ExtractSystemPrompt(messages) ==
    LET sys == SelectSeq(messages, IsSystem)
    IN IF Len(sys) = 0 THEN None ELSE sys[Len(sys)].content

\* Python truthiness of an optional string: None and "" are false.
Truthy(v) == IF v = None THEN FALSE ELSE Len(v) > 0

\* Mutant of RequestKwargs: only the last two turns are sent.
RequestKwargsSuffix(messages, sys, tools) ==
    [model |-> "claude", max_tokens |-> 4096,
     messages |-> IF Len(messages) > 2
                  THEN SubSeq(messages, Len(messages) - 1, Len(messages))
                  ELSE messages,
     system |-> IF Truthy(sys) THEN sys ELSE "absent",
     tools |-> IF Truthy(tools) THEN tools ELSE "absent"]

\* request_kwargs of one round
RequestKwargs(messages, sys, tools) ==
    [model |-> "claude", max_tokens |-> 4096, messages |-> messages,
     system |-> IF Truthy(sys) THEN sys ELSE "absent",
     tools |-> IF Truthy(tools) THEN tools ELSE "absent"]

\* Mutant of LoopCondition: the bound is off by one.
LoopConditionInclusive(round) == round <= MAX_TOOL_ROUNDS

\* while tool_round < MAX_TOOL_ROUNDS
LoopCondition(round) == round < MAX_TOOL_ROUNDS

\* Mutant of WantsTools: a truncated response is continued like a tool
\* request.
WantsToolsOrTruncated(resp) == resp.stop_reason \in {"tool_use", "max_tokens"}

\* if response.stop_reason == "tool_use"
WantsTools(resp) == resp.stop_reason = "tool_use"

IsToolUse(block) == block.type = "tool_use"

\* [block for block in response.content if block.type == "tool_use"]
ToolCallsOf(resp) == SelectSeq(resp.content, IsToolUse)

\* Mutant of AssistantTurn: only the text blocks are kept.
AssistantTurnTextOnly(resp) ==
    [role |-> "assistant",
     content |-> BlocksToDicts(SelectSeq(resp.content, LAMBDA b : b.type = "text"))]

AssistantTurn(resp) == [role |-> "assistant", content |-> BlocksToDicts(resp.content)]

\* Mutant of UserTurn: only the first result of the round is kept.
UserTurnFirstOnly(results) ==
    [role |-> "user",
     content |-> IF Len(results) > 1 THEN <<results[1]>> ELSE results]

\* The user turn of lines 117-120
UserTurn(results) == [role |-> "user", content |-> results]

(***************************************************************************)
(* AgentExecutor.run as a state machine.                                   *)
(***************************************************************************)
\* The calls of run that are enumerated: a conversation without a system
\* turn, one with a system turn and the system argument supplied, one with
\* two system turns and no tools.
PlainConversation == <<[role |-> "user", content |-> "hello"]>>

OneSystemTurn ==
    <<[role |-> "system", content |-> "SYS1"],
      [role |-> "user", content |-> "hello"]>>

TwoSystemTurns ==
    <<[role |-> "system", content |-> "SYS1"],
      [role |-> "user", content |-> "hello"],
      [role |-> "system", content |-> "SYS2"]>>

\* get_halo_tools(): the fixed tool declarations, an opaque value here.
HaloTools == "halo_tools"

RunInputs ==
    <<[messages |-> PlainConversation, tools |-> HaloTools, system |-> None],
      [messages |-> OneSystemTurn, tools |-> HaloTools, system |-> "ARG"],
      [messages |-> TwoSystemTurns, tools |-> None, system |-> None]>>

\* A local that has no value yet.
Unbound == [unbound |-> TRUE]

ExecInit ==
    /\ pc = "idle"
    /\ in_messages = <<>>
    /\ in_tools = None
    /\ in_system = None
    /\ system = None
    /\ current_messages = <<>>
    /\ tool_round = 0
    /\ response = Unbound
    /\ tool_calls = <<>>
    /\ tool_results = <<>>
    /\ awaiting = Unbound
    /\ ret = Unbound
    /\ request = Unbound
    /\ responses = <<>>
    /\ model_failed = FALSE
    /\ exec_log = <<>>
    /\ store_log = <<>>
    /\ varied = 0

\* run, lines 60-65: system extraction and the locals of the loop.
Run(messages, tools, sys) ==
    /\ pc = "idle"
    /\ in_messages' = messages
    /\ in_tools' = tools
    /\ in_system' = sys
    /\ IF sys = None
       THEN /\ current_messages' = ExtractSystemFiltered(messages)
            /\ system' = ExtractSystemPrompt(messages)
       ELSE /\ current_messages' = messages
            /\ system' = sys
    /\ tool_round' = 0
    /\ pc' = "loop"
    /\ UNCHANGED <<response, tool_calls, tool_results, awaiting, ret, request,
                   responses, model_failed, exec_log, store_log, varied>>
    /\ UNCHANGED <<inj_vars, lib_vars>>

\* The end of one tool call of the round (lines 110-120): its result is
\* collected, and after the last call of the round the user turn is appended
\* and control returns to the loop head.  A call that raised ends run.
Collect(tool_call, done, cause) ==
    IF done.kind = "raise"
    THEN /\ ret' = [kind |-> "raise", exc |-> "ToolError"]
         /\ pc' = "done"
         /\ UNCHANGED <<tool_results, current_messages, exec_log>>
    ELSE LET results == Append(tool_results, ToolResultBlock(tool_call, done.value))
         IN /\ tool_results' = results
            /\ exec_log' = Append(exec_log,
                                  [round |-> tool_round, id |-> tool_call.id,
                                   name |-> tool_call.name,
                                   input |-> tool_call.input, cause |-> cause,
                                   result |-> done.value])
            /\ IF Len(results) = Len(tool_calls)
               THEN /\ current_messages' = Append(current_messages, UserTurn(results))
                    /\ pc' = "loop"
               ELSE /\ pc' = "tools"
                    /\ UNCHANGED current_messages
            /\ UNCHANGED ret

\* What run does with a model response (lines 87-124).
HandleResponse(resp) ==
    IF WantsTools(resp)
    THEN LET calls == ToolCallsOf(resp)
             with_assistant == Append(current_messages, AssistantTurn(resp))
         IN /\ tool_calls' = calls
            /\ tool_results' = <<>>
            /\ IF Len(calls) = 0
               THEN /\ current_messages' = Append(with_assistant, UserTurn(<<>>))
                    /\ pc' = "loop"
               ELSE /\ current_messages' = with_assistant
                    /\ pc' = "tools"
            /\ UNCHANGED ret
    ELSE /\ ret' = [kind |-> "return", value |-> ResponseToDict(resp)]
         /\ pc' = "done"
         /\ UNCHANGED <<tool_calls, tool_results, current_messages>>

\* One loop iteration up to the model's answer (lines 67-101).
CallModel ==
    /\ pc = "loop"
    /\ LoopCondition(tool_round)
    /\ tool_round' = tool_round + 1
    /\ request' = RequestKwargs(current_messages, system, in_tools)
    /\ \E resp \in FinalResponses(tool_round + 1)
                   \cup {DefaultToolResponse(tool_round + 1)}
                   \cup (IF varied < MaxVaried
                         THEN VariedToolResponses(tool_round + 1) ELSE {}) :
          /\ response' = resp
          /\ responses' = Append(responses, resp)
          /\ varied' = IF resp \in VariedToolResponses(tool_round + 1)
                       THEN varied + 1 ELSE varied
          /\ HandleResponse(resp)
    /\ model_failed' = FALSE
    /\ UNCHANGED <<in_messages, in_tools, in_system, system, awaiting,
                   exec_log, store_log>>
    /\ UNCHANGED <<inj_vars, lib_vars>>

\* The model call raises (line 85): nothing in run catches it.
CallModelRaises ==
    /\ pc = "loop"
    /\ LoopCondition(tool_round)
    /\ tool_round' = tool_round + 1
    /\ request' = RequestKwargs(current_messages, system, in_tools)
    /\ model_failed' = TRUE
    /\ ret' = [kind |-> "raise", exc |-> "APIError"]
    /\ pc' = "done"
    /\ UNCHANGED <<in_messages, in_tools, in_system, system, current_messages,
                   response, responses, tool_calls, tool_results, awaiting,
                   exec_log, store_log, varied>>
    /\ UNCHANGED <<inj_vars, lib_vars>>

\* The loop condition fails (lines 126-128).
ReturnAtCap ==
    /\ pc = "loop"
    /\ ~LoopCondition(tool_round)
    /\ ret' = [kind |-> "return", value |-> ResponseToDict(response)]
    /\ pc' = "done"
    /\ UNCHANGED <<in_messages, in_tools, in_system, system, current_messages,
                   tool_round, response, responses, tool_calls, tool_results,
                   awaiting, request, model_failed, exec_log, store_log, varied>>
    /\ UNCHANGED <<inj_vars, lib_vars>>

\* Mutant of NextToolCall: the calls of a round are taken last first.
LastToolCallFirst == tool_calls[Len(tool_calls) - Len(tool_results)]

\* for tool_call in tool_calls (line 105): the call the loop takes next, the
\* calls before it having each appended their result.
NextToolCall == tool_calls[Len(tool_results) + 1]

\* The next tool call of the round is dispatched (lines 105-109, 192-237).
ExecuteTool ==
    /\ pc = "tools"
    /\ LET tool_call == NextToolCall
           begun == ExecuteToolBegin(tool_call.name, tool_call.input)
       IN IF begun.kind = "await"
          THEN /\ awaiting' = [tool_call |-> tool_call, call |-> begun.call]
               /\ store_log' = Append(store_log,
                                      [round |-> tool_round, id |-> tool_call.id,
                                       call |-> begun.call])
               /\ pc' = "await"
               /\ UNCHANGED <<tool_results, current_messages, exec_log, ret>>
          ELSE /\ Collect(tool_call, begun,
                          IF tool_call.name \in KnownTools
                          THEN "missing" ELSE "unknown")
               /\ UNCHANGED <<awaiting, store_log>>
    /\ UNCHANGED <<in_messages, in_tools, in_system, system, tool_round,
                   response, responses, tool_calls, request, model_failed, varied>>
    /\ UNCHANGED <<inj_vars, lib_vars>>

\* The first round is already counted in varied: its response is not the
\* default one.
VariedRound == tool_round = 1 /\ response \in VariedToolResponses(1)

\* The awaited record-store call returns or raises (lines 192-241).
ToolReturns ==
    /\ pc = "await"
    /\ \E how \in {"default"} \cup (IF varied < MaxVaried \/ VariedRound
                                    THEN VariedOutcomes ELSE {}) :
          /\ varied' = IF how = "default" \/ VariedRound THEN varied ELSE varied + 1
          /\ Collect(awaiting.tool_call,
                     ExecuteToolEnd(StoreOutcome(awaiting.call, how)),
                     IF how = "raise" THEN "store_raise" ELSE "ok")
    /\ awaiting' = Unbound
    /\ UNCHANGED <<in_messages, in_tools, in_system, system, tool_round,
                   response, responses, tool_calls, request, model_failed,
                   store_log>>
    /\ UNCHANGED <<inj_vars, lib_vars>>

(***************************************************************************)
(* Properties of the tool loop.                                            *)
(***************************************************************************)
\* The number of model calls made so far by the run.
ModelCalls == Len(responses) + (IF model_failed THEN 1 ELSE 0)

\* Every model call so far was answered, and with stop_reason tool_use.
AllToolUse ==
    /\ ~model_failed
    /\ \A i \in 1..Len(responses) : responses[i].stop_reason = "tool_use"

\* The conversation state before the first round: the caller's turns, less
\* the system turns when the system argument was omitted.
InitialConversation ==
    IF in_system = None
    THEN SelectSeq(in_messages, LAMBDA m : m.role # "system")
    ELSE in_messages

\* The turns appended by tool round i: the assistant turn and the user turn.
AssistantTurnOf(i) == current_messages[Len(InitialConversation) + 2 * i - 1]
UserTurnOf(i) == current_messages[Len(InitialConversation) + 2 * i]

\* The number of tool rounds whose user turn has been appended.
CompletedRounds == (Len(current_messages) - Len(InitialConversation)) \div 2

ToolUseBlocksOf(content) == SelectSeq(content, LAMBDA b : b.type = "tool_use")

C1_Safety ==
    /\ ModelCalls <= 10
    /\ tool_round = ModelCalls
    /\ (pc = "done" /\ AllToolUse) =>
          /\ Len(responses) = 10
          /\ ret.kind = "return"
          /\ ret.value.id = <<"msg", 10>>
          /\ ret.value.stop_reason = "tool_use"
          /\ ret.value = ResponseToDict(responses[10])

\* C1: run makes at most MAX_TOOL_ROUNDS = 10 model calls and then ends,
\* whatever the backend and the tools do; when every model call is answered
\* with stop_reason tool_use, run makes exactly 10 calls and returns the
\* conversion of the 10th response as a normal return value.
C1_RoundCap == []C1_Safety /\ <>(pc = "done")

C1_Witness ==
    /\ pc = "done"
    /\ AllToolUse
    /\ Len(responses) = 10
    /\ ret.kind = "return"

\* A step in which a model call is answered.
Answered == Len(responses') = Len(responses) + 1

C2_Step ==
    /\ (Answered /\ responses'[Len(responses')].stop_reason # "tool_use") =>
          /\ pc' = "done"
          /\ ret' = [kind |-> "return",
                     value |-> ResponseToDict(responses'[Len(responses')])]
          /\ current_messages' = current_messages
          /\ exec_log' = exec_log
          /\ store_log' = store_log
          /\ awaiting' = awaiting
    /\ pc = "done" => UNCHANGED vars

\* C2: a response whose stop_reason is not tool_use (end_turn, max_tokens,
\* stop_sequence alike) ends run in that step: run returns the conversion
\* of exactly that response, no tool is executed, no turn is appended, and
\* nothing happens after the return.
C2_FinalResponse == [][C2_Step]_vars

C2_Witness ==
    /\ pc = "done"
    /\ ret.kind = "return"
    /\ Len(responses) = 3
    /\ response.stop_reason = "max_tokens"
    /\ Len(ToolUseBlocksOf(response.content)) = 1

\* C3: when the model requests tools in rounds 1..k and stops in round k+1,
\* the conversation sent in round k+1 is the initial conversation followed
\* by k pairs (assistant turn with that round's tool calls, user turn with
\* one result per call, same ids), and run returns the (k+1)-th response.
C3_RoundTrip ==
    (pc = "done" /\ ~model_failed /\ response.stop_reason # "tool_use") =>
        LET k == Len(responses) - 1
            n0 == Len(InitialConversation)
        IN /\ k < 10
           /\ request.messages = current_messages
           /\ Len(current_messages) = n0 + 2 * k
           /\ SubSeq(current_messages, 1, n0) = InitialConversation
           /\ \A i \in 1..k :
                 LET calls == ToolUseBlocksOf(responses[i].content)
                 IN /\ AssistantTurnOf(i).role = "assistant"
                    /\ Len(ToolUseBlocksOf(AssistantTurnOf(i).content)) = Len(calls)
                    /\ \A j \in 1..Len(calls) :
                          /\ ToolUseBlocksOf(AssistantTurnOf(i).content)[j].id = calls[j].id
                          /\ ToolUseBlocksOf(AssistantTurnOf(i).content)[j].name = calls[j].name
                          /\ ToolUseBlocksOf(AssistantTurnOf(i).content)[j].input = calls[j].input
                    /\ UserTurnOf(i).role = "user"
                    /\ Len(UserTurnOf(i).content) = Len(calls)
                    /\ \A j \in 1..Len(calls) :
                          /\ UserTurnOf(i).content[j].type = "tool_result"
                          /\ UserTurnOf(i).content[j].tool_use_id = calls[j].id
           /\ ret.kind = "return"
           /\ ret.value.id = <<"msg", k + 1>>
           /\ ret.value = ResponseToDict(responses[k + 1])

\* One tool round: one assistant turn with the call, one user turn with its
\* result, and the second response returned.
C3_Witness ==
    /\ pc = "done"
    /\ Len(responses) = 2
    /\ Len(ToolUseBlocksOf(responses[1].content)) = 1
    /\ response.stop_reason = "end_turn"
    /\ ret.kind = "return"
    /\ ret.value.id = <<"msg", 2>>
    /\ Len(current_messages) = Len(InitialConversation) + 2

\* C4: in every tool round the user turn holds one tool_result per tool_use
\* block of the assistant turn before it, in the same order, the i-th result
\* carrying the i-th call's id; the results collected so far in the current
\* round follow the same rule.
C4_ResultsMatchCalls ==
    /\ \A i \in 1..CompletedRounds :
          LET calls == ToolUseBlocksOf(AssistantTurnOf(i).content)
              results == UserTurnOf(i).content
          IN /\ AssistantTurnOf(i).role = "assistant"
             /\ UserTurnOf(i).role = "user"
             /\ Len(results) = Len(calls)
             /\ \A j \in 1..Len(calls) :
                   /\ results[j].type = "tool_result"
                   /\ results[j].tool_use_id = calls[j].id
    /\ pc \in {"tools", "await"} =>
          /\ Len(tool_results) < Len(tool_calls)
          /\ \A j \in 1..Len(tool_results) :
                tool_results[j].tool_use_id = tool_calls[j].id

C4_Witness ==
    /\ CompletedRounds >= 2
    /\ \E i \in 1..CompletedRounds :
          /\ Len(UserTurnOf(i).content) = 2
          /\ UserTurnOf(i).content[1].tool_use_id # UserTurnOf(i).content[2].tool_use_id

\* The nine tool names of the dispatch table, as the specification lists them.
NineTools ==
    {"get_ticket", "get_user", "get_user_tickets", "get_client",
     "get_client_tickets", "get_asset", "search_tickets", "search_kb",
     "get_kb_article"}

\* The entries of exec_log (indices) that are tool-dispatch errors: unknown
\* tool name, missing required parameter, exception of the record store.
DispatchErrors ==
    {n \in 1..Len(exec_log) :
        \/ exec_log[n].name \notin NineTools
        \/ RequiredParam(exec_log[n].name) \notin DOMAIN exec_log[n].input
        \/ exec_log[n].cause = "store_raise"}

\* The tool results of round r: the user turn once appended, the results
\* collected so far before.
ResultsOfRound(r) ==
    IF r <= CompletedRounds THEN UserTurnOf(r).content ELSE tool_results

\* The parts of C5 that do not speak of the next model call: a tool never
\* makes run raise; each dispatch error is an {error: message} payload and
\* is the tool result appended for that call's id; every tool call of a
\* completed round was executed.
C5_ErrorsAreResults ==
    /\ (pc = "done" /\ ret.kind = "raise") => (model_failed /\ ret.exc = "APIError")
    /\ \A n \in DispatchErrors :
          LET e == exec_log[n]
              results == ResultsOfRound(e.round)
          IN /\ PyType(e.result) = "dict"
             /\ DOMAIN PyVal(e.result) = {"error"}
             /\ \E j \in 1..Len(results) :
                   /\ results[j].type = "tool_result"
                   /\ results[j].tool_use_id = e.id
                   /\ results[j].content.enc = "json"
                   /\ results[j].content.of = e.result
    /\ \A r \in 1..CompletedRounds :
          Cardinality({n \in 1..Len(exec_log) : exec_log[n].round = r})
             = Len(ToolUseBlocksOf(responses[r].content))

\* C5 as stated: in addition, after every dispatch error the loop goes on to
\* a further model call.
C5_Original ==
    /\ C5_ErrorsAreResults
    /\ pc = "done" => \A n \in DispatchErrors : ModelCalls > exec_log[n].round

\* C5 as amended: a tool-dispatch error never aborts run and is never raised
\* to the caller; it becomes an {error: message} payload appended as the
\* tool result for that call's id, the remaining tool calls of the round are
\* still executed, and the loop goes on as after a successful call: to the
\* next model call in rounds 1 to 9, and in round 10 to the return of that
\* round's response.
C5_ErrorsDoNotAbort ==
    /\ C5_ErrorsAreResults
    /\ pc = "done" =>
          \A n \in DispatchErrors :
             \/ ModelCalls > exec_log[n].round
             \/ /\ exec_log[n].round = 10
                /\ ret.kind = "return"
                /\ ret.value.id = <<"msg", 10>>

\* A round whose first call failed (unknown tool) and whose second call was
\* still executed, followed by a further model call.
C5_Witness ==
    /\ \E n \in DispatchErrors :
          /\ exec_log[n].name = "bogus_tool"
          /\ ModelCalls > exec_log[n].round
          /\ \E m \in 1..Len(exec_log) :
                /\ m > n
                /\ exec_log[m].round = exec_log[n].round
                /\ exec_log[m].name = "get_user"
    /\ pc = "done"
    /\ ret.kind = "return"

C6_Step ==
    (pc = "tools" /\ NextToolCall.name \notin NineTools) =>
        /\ Len(exec_log') = Len(exec_log) + 1
        /\ exec_log'[Len(exec_log')].id = NextToolCall.id
        /\ exec_log'[Len(exec_log')].result =
              PyDict([error |-> "Unknown tool: " \o NextToolCall.name])
        /\ store_log' = store_log
        /\ awaiting' = awaiting
        /\ pc' \in {"tools", "loop"}
        /\ ret' = ret

\* C6: for a tool name outside the nine, _execute_tool returns
\* {error: "Unknown tool: <name>"}: it does not raise and issues no
\* record-store call.
C6_UnknownTool == [][C6_Step]_vars

C6_Witness ==
    /\ \E n \in 1..Len(exec_log) :
          /\ exec_log[n].name = "Get_Ticket"
          /\ exec_log[n].result = PyDict([error |-> "Unknown tool: Get_Ticket"])
    /\ store_log = <<>>
    /\ pc = "loop"

(***************************************************************************)
(* C21: the tool calls of a round run one after the other.                 *)
(***************************************************************************)
\* The ids of the tool calls whose _execute_tool has returned.
CompletedCalls == {exec_log[n].id : n \in 1..Len(exec_log)}

\* The number of record-store calls of tools that were started and have not
\* yet returned or raised.
InFlight ==
    Len(store_log)
    - Cardinality({n \in 1..Len(exec_log) : exec_log[n].cause \in {"ok", "store_raise"}})

\* C21: the tool calls of a round are executed one at a time in emission
\* order: the record-store call of a tool call is started only when every
\* tool call emitted before it in the round has completed, with a result or
\* an error payload; the calls complete in emission order; and at most one
\* record-store call of the run is in flight, namely the awaited one.
C21_Sequential ==
    /\ InFlight \in {0, 1}
    /\ InFlight = 1 <=> pc = "await"
    /\ \A n \in 1..Len(store_log) :
          \A i \in 1..(store_log[n].id[3] - 1) :
             <<"toolu", store_log[n].round, i>> \in CompletedCalls
    /\ pc = "await" =>
          /\ store_log[Len(store_log)].id = awaiting.tool_call.id
          /\ awaiting.tool_call.id \notin CompletedCalls
    /\ \A n \in 1..Len(exec_log) :
          IF exec_log[n].id[3] = 1
          THEN n = 1 \/ exec_log[n - 1].round < exec_log[n].round
          ELSE /\ n > 1
               /\ exec_log[n - 1].id =
                     <<"toolu", exec_log[n].round, exec_log[n].id[3] - 1>>

\* The second call of a round, get_asset, is awaited after the first,
\* get_ticket, was started and has completed.
C21_Witness ==
    /\ pc = "await"
    /\ awaiting.tool_call.id[3] = 2
    /\ awaiting.call.op = "get_asset"
    /\ Len(store_log) >= 2
    /\ store_log[Len(store_log) - 1].call.op = "get_ticket"
    /\ store_log[Len(store_log) - 1].round = tool_round
    /\ exec_log[Len(exec_log)].id = <<"toolu", tool_round, 1>>
    /\ exec_log[Len(exec_log)].cause = "ok"

(***************************************************************************)
(* C22: the conversation state only grows.                                 *)
(***************************************************************************)
IsPrefix(a, b) == Len(a) <= Len(b) /\ SubSeq(b, 1, Len(a)) = a

\* A step in which the model is called (answered or not).
ModelCalled == tool_round' = tool_round + 1

C22_Step ==
    /\ pc # "idle" => IsPrefix(current_messages, current_messages')
    /\ ModelCalled =>
          /\ request'.messages = current_messages
          /\ IsPrefix(InitialConversation, request'.messages)
          /\ request # Unbound =>
                /\ IsPrefix(request.messages, request'.messages)
                /\ Len(request'.messages) = Len(request.messages) + 2
    /\ ~ModelCalled => request' = request

\* C22: the conversation state of a run is append-only.  Every step of the
\* loop leaves the turns it found in place and in order, each model call is
\* sent the whole conversation state, which begins with the initial
\* conversation, and the turns sent in one round are a prefix of the turns
\* sent in the next, which has the two turns of the round between them more.
C22_AppendOnly == [][C22_Step]_vars

\* The third model call of a run was sent the initial conversation and the
\* four turns of two tool rounds.
C22_Witness ==
    /\ tool_round = 3
    /\ Len(responses) = 3
    /\ Len(request.messages) = Len(InitialConversation) + 4
    /\ IsPrefix(InitialConversation, request.messages)
    /\ request.messages[Len(request.messages)].role = "user"
    /\ request.messages[Len(request.messages) - 1].role = "assistant"

(***************************************************************************)
(* C23: system turns and the system channel.                               *)
(***************************************************************************)
\* The turns with role system among the messages of the last model request.
SystemTurnsSent ==
    IF request = Unbound THEN {}
    ELSE {i \in 1..Len(request.messages) : request.messages[i].role = "system"}

\* C23: in every model request made by run no turn of the conversation has
\* role system, whether the system argument was omitted or supplied and
\* whatever the number of system turns in the input.
C23_NoSystemTurn == SystemTurnsSent = {}

\* The same for the calls of run that omit the system argument: the system
\* turns are taken out and the content of the last one is sent as system.
NoSystemTurnWhenOmitted ==
    (in_system = None /\ request # Unbound) =>
        /\ SystemTurnsSent = {}
        /\ request.messages = current_messages
              \/ IsPrefix(request.messages, current_messages)
        /\ request.system =
              IF Truthy(ExtractSystemPrompt(in_messages))
              THEN ExtractSystemPrompt(in_messages) ELSE "absent"

\* run was called with the system argument and a conversation holding a
\* system turn: the model request carries both.
C23_Witness ==
    /\ in_system = "ARG"
    /\ request # Unbound
    /\ request.system = "ARG"
    /\ SystemTurnsSent = {1}
    /\ request.messages[1] = [role |-> "system", content |-> "SYS1"]

(***************************************************************************)
(* C24: the dispatch of the nine tools.                                    *)
(***************************************************************************)
\* The "required" list of each tool declaration of get_halo_tools
\* (halo/tools.py).
DeclaredRequired(tool_name) ==
    CASE tool_name = "get_ticket"         -> {"ticket_id"}
      [] tool_name = "get_user"           -> {"user_id"}
      [] tool_name = "get_user_tickets"   -> {"user_id"}
      [] tool_name = "get_client"         -> {"client_id"}
      [] tool_name = "get_client_tickets" -> {"client_id"}
      [] tool_name = "get_asset"          -> {"asset_id"}
      [] tool_name = "search_tickets"     -> {"query"}
      [] tool_name = "search_kb"          -> {"query"}
      [] tool_name = "get_kb_article"     -> {"article_id"}

\* {"error": <message>}
IsErrorPayload(result) ==
    PyType(result) = "dict" /\ DOMAIN PyVal(result) = {"error"}

\* The record-store calls issued for the tool call with this id.
IssuedFor(id) == {m \in 1..Len(store_log) : store_log[m].id = id}

\* C24: for each of the nine tools, a call whose input lacks a required
\* parameter issues no record-store call and returns {error: message}; a
\* call with every required parameter issues exactly one record-store call,
\* the operation of the tool's name, whose value is the result and whose
\* exception is returned as {error: message}; run never raises for a tool.
C24_Dispatch ==
    /\ \A n \in 1..Len(exec_log) :
          LET e == exec_log[n]
          IN e.name \in NineTools =>
                IF DeclaredRequired(e.name) \subseteq DOMAIN e.input
                THEN /\ Cardinality(IssuedFor(e.id)) = 1
                     /\ \A m \in IssuedFor(e.id) :
                           /\ store_log[m].call.op = e.name
                           /\ e.cause = "store_raise" =>
                                 e.result = ErrorPayload("404 Not Found")
                           /\ e.cause # "store_raise" =>
                                 /\ e.cause = "ok"
                                 /\ e.result \in
                                       {StoreOutcome(store_log[m].call, "default").value,
                                        StoreOutcome(store_log[m].call, "other").value}
                ELSE /\ IssuedFor(e.id) = {}
                     /\ IsErrorPayload(e.result)
    /\ pc = "await" =>
          /\ awaiting.tool_call.name \in NineTools
          /\ DeclaredRequired(awaiting.tool_call.name) \subseteq DOMAIN awaiting.tool_call.input
          /\ awaiting.call.op = awaiting.tool_call.name
    /\ (pc = "done" /\ ret.kind = "raise") => model_failed

\* get_kb_article was called with its article_id and the record store
\* raised: one get_kb_article call was issued and the error was returned.
C24_Witness ==
    /\ Len(exec_log) = 1
    /\ exec_log[1].name = "get_kb_article"
    /\ exec_log[1].input = FullInput("get_kb_article")
    /\ exec_log[1].cause = "store_raise"
    /\ exec_log[1].result = ErrorPayload("404 Not Found")
    /\ Len(store_log) = 1
    /\ store_log[1].call = [op |-> "get_kb_article", args |-> <<7>>]
    /\ pc = "loop"

\* search_tickets was called without its query: no record-store call was
\* issued and the error names the key.
MissingParameterReached ==
    /\ Len(exec_log) = 1
    /\ exec_log[1].name = "search_tickets"
    /\ exec_log[1].input = EmptyDict
    /\ exec_log[1].result = ErrorPayload("'query'")
    /\ store_log = <<>>

(***************************************************************************)
(* Python values of the record store: each carries its run-time type.      *)
(***************************************************************************)
PyNone == [none |-> TRUE]
PyInt(n) == [int |-> n]

\* bool(x)
PyTruthy(x) ==
    CASE PyType(x) = "none" -> FALSE
      [] PyType(x) = "int"  -> PyVal(x) # 0
      [] PyType(x) = "dict" -> DOMAIN PyVal(x) # {}
      [] PyType(x) = "list" -> Len(PyVal(x)) > 0
      [] OTHER        -> TRUE

\* d.get(key) of a dict value
PyGet(d, key) == IF key \in DOMAIN PyVal(d) THEN PyVal(d)[key] ELSE PyNone

(***************************************************************************)
(* TicketIdParser (context/parser.py).  A text is a sequence of tokens: a  *)
(* maximal run of digits, one whitespace character, one punctuation        *)
(* character, or a run of letters.                                         *)
(***************************************************************************)
\* int(token) for the digit runs that occur in the prompts
Numerals == {"0", "1", "2", "12", "1234"}

IntOf(tok) ==
    CASE tok = "0"    -> 0
      [] tok = "1"    -> 1
      [] tok = "2"    -> 2
      [] tok = "12"   -> 12
      [] tok = "1234" -> 1234

IsDigits(tok) == tok \in Numerals
IsSpace(tok) == tok \in {" ", "\n", "\t"}

\* re.IGNORECASE on the letter runs that occur in the prompts
Lower(tok) ==
    CASE tok \in {"Ticket", "TICKET", "ticket"} -> "ticket"
      [] tok \in {"tickets", "Tickets"}         -> "tickets"
      [] tok \in {"id", "ID", "Id"}             -> "id"
      [] OTHER                                  -> tok

\* TICKET_ID_PATTERNS, lines 13-20, as sequences of pattern elements.
Lit(str) == [kind |-> "lit", s |-> str]
El(kind) == [kind |-> kind, s |-> ""]

TICKET_ID_PATTERNS ==
    << <<Lit("ticket"), El("ws*"), Lit("#"), El("ws*"), El("digits")>>,
       <<Lit("ticket"), El("ws+"), El("digits")>>,
       <<Lit("ticket"), El("sep?"), Lit("id"), El("sep+"), El("digits")>>,
       <<Lit("["), Lit("ticket"), Lit(":"), El("ws*"), El("digits"), Lit("]")>>,
       <<Lit("/"), Lit("tickets"), Lit("/"), El("digits")>>,
       <<El("nodigit<"), Lit("#"), El("digits4")>> >>

\* The position after the longest run of tokens of a class starting at pos.
RECURSIVE SkipRun(_, _, _)
SkipRun(text, pos, class) ==
    IF pos <= Len(text) /\ text[pos] \in class
    THEN SkipRun(text, pos + 1, class)
    ELSE pos

SpaceTokens == {" ", "\n", "\t"}

\* Whether elements k.. of the pattern match the text from position pos,
\* and the digit run captured ("" before the group is reached).
RECURSIVE MatchAt(_, _, _, _, _)
MatchAt(pat, k, text, pos, cap) ==
    IF k > Len(pat) THEN [ok |-> TRUE, cap |-> cap]
    ELSE LET e == pat[k]
             fail == [ok |-> FALSE, cap |-> ""]
         IN CASE e.kind = "lit" ->
                   IF pos <= Len(text) /\ Lower(text[pos]) = e.s
                   THEN MatchAt(pat, k + 1, text, pos + 1, cap) ELSE fail
              [] e.kind = "ws*" ->
                   MatchAt(pat, k + 1, text, SkipRun(text, pos, SpaceTokens), cap)
              [] e.kind = "ws+" ->
                   IF pos <= Len(text) /\ IsSpace(text[pos])
                   THEN MatchAt(pat, k + 1, text, SkipRun(text, pos, SpaceTokens), cap)
                   ELSE fail
              [] e.kind = "sep?" ->
                   IF pos <= Len(text) /\ text[pos] \in SpaceTokens \cup {"_"}
                   THEN MatchAt(pat, k + 1, text, pos + 1, cap)
                   ELSE MatchAt(pat, k + 1, text, pos, cap)
              [] e.kind = "sep+" ->
                   IF pos <= Len(text) /\ text[pos] \in SpaceTokens \cup {":"}
                   THEN MatchAt(pat, k + 1, text,
                                SkipRun(text, pos, SpaceTokens \cup {":"}), cap)
                   ELSE fail
              [] e.kind = "digits" ->
                   IF pos <= Len(text) /\ IsDigits(text[pos])
                   THEN MatchAt(pat, k + 1, text, pos + 1, text[pos]) ELSE fail
              [] e.kind = "digits4" ->
                   IF pos <= Len(text) /\ IsDigits(text[pos]) /\ Len(text[pos]) >= 4
                   THEN MatchAt(pat, k + 1, text, pos + 1, text[pos]) ELSE fail
              [] e.kind = "nodigit<" ->
                   IF pos > 1 /\ IsDigits(text[pos - 1])
                   THEN fail ELSE MatchAt(pat, k + 1, text, pos, cap)

\* pattern.search(text): the match at the leftmost position, if any.
Search(pat, text) ==
    LET starts == {q \in 1..Len(text) : MatchAt(pat, 1, text, q, "").ok}
    IN IF starts = {}
       THEN [ok |-> FALSE, cap |-> ""]
       ELSE MatchAt(pat, 1, text,
                    CHOOSE q \in starts : \A r \in starts : q <= r, "")

\* Whether the pattern matches somewhere in the text, and where its
\* leftmost match starts.
Matches(pat, text) == \E q \in 1..Len(text) : MatchAt(pat, 1, text, q, "").ok

MatchStart(pat, text) ==
    CHOOSE q \in 1..Len(text) :
       /\ MatchAt(pat, 1, text, q, "").ok
       /\ \A r \in 1..(q - 1) : ~MatchAt(pat, 1, text, r, "").ok

\* Mutant of ParseFrom: the rule whose match starts first in the text wins.
ParseLeftmost(text, k) ==
    LET matching == {j \in 1..Len(TICKET_ID_PATTERNS) :
                        Matches(TICKET_ID_PATTERNS[j], text)}
    IN IF matching = {} THEN [found |-> FALSE, id |-> 0]
       ELSE LET j == CHOOSE i \in matching : \A h \in matching :
                        \/ MatchStart(TICKET_ID_PATTERNS[i], text)
                              < MatchStart(TICKET_ID_PATTERNS[h], text)
                        \/ /\ MatchStart(TICKET_ID_PATTERNS[i], text)
                                = MatchStart(TICKET_ID_PATTERNS[h], text)
                           /\ i <= h
            IN [found |-> TRUE,
                id |-> IntOf(Search(TICKET_ID_PATTERNS[j], text).cap)]

\* TicketIdParser.parse, lines 36-57: the number captured by the first
\* pattern of the list that matches; found is FALSE for None.
RECURSIVE ParseFrom(_, _)
ParseFrom(text, k) ==
    IF k > Len(TICKET_ID_PATTERNS) THEN [found |-> FALSE, id |-> 0]
    ELSE LET m == Search(TICKET_ID_PATTERNS[k], text)
         IN IF m.ok THEN [found |-> TRUE, id |-> IntOf(m.cap)]
            ELSE ParseFrom(text, k + 1)

\* An optional text: None, or a sequence of tokens.
NoText == [present |-> FALSE, text |-> <<>>]
Text(tokens) == [present |-> TRUE, text |-> tokens]

\* "if not system_prompt": None and the empty string are false.
TextTruthy(prompt) == prompt.present /\ Len(prompt.text) > 0

Parse(prompt) ==
    IF ~TextTruthy(prompt) THEN [found |-> FALSE, id |-> 0]
    ELSE ParseFrom(prompt.text, 1)

\* Mutant of IdTruthy: the lookup goes on without an identifier.
IdAssumed(parsed) == TRUE

\* "if not ticket_id": None and 0 are false.
IdTruthy(parsed) == parsed.found /\ parsed.id # 0

(***************************************************************************)
(* ContextFetcher (context/fetcher.py): pure parts.                        *)
(***************************************************************************)
\* ContextData()
EmptyContext ==
    [ticket |-> PyNone, actions |-> <<>>, user |-> PyNone, client |-> PyNone,
     assets |-> <<>>, errors |-> <<>>]

\* The common loop of _extract_user_id and _extract_client_id: the first
\* field, in order, whose value is an int or a dict with a true "id".
RECURSIVE ExtractId(_, _, _)
ExtractId(ticket, fields, k) ==
    IF k > Len(fields) THEN PyNone
    ELSE LET value == PyGet(ticket, fields[k])
         IN IF PyType(value) = "int" THEN value
            ELSE IF PyType(value) = "dict" /\ PyTruthy(PyGet(value, "id"))
            THEN PyVal(value)["id"]
            ELSE ExtractId(ticket, fields, k + 1)

ExtractUserId(ticket) ==
    ExtractId(ticket, <<"user_id", "userid", "user", "reportedby">>, 1)

ExtractClientId(ticket) ==
    ExtractId(ticket, <<"client_id", "clientid", "client", "organisation_id">>, 1)

\* The ids one element of an assets list contributes (lines 180-184).
AssetIdsOfElement(asset) ==
    IF PyType(asset) = "dict" /\ PyTruthy(PyGet(asset, "id")) THEN <<PyVal(asset)["id"]>>
    ELSE IF PyType(asset) = "int" THEN <<asset>>
    ELSE <<>>

RECURSIVE AssetIdsOfList(_, _)
AssetIdsOfList(assets, k) ==
    IF k > Len(assets) THEN <<>>
    ELSE AssetIdsOfElement(assets[k]) \o AssetIdsOfList(assets, k + 1)

\* The ids one of the fields assets, linkedassets, asset contributes
\* (lines 178-188); an absent field is the empty list.
AssetIdsOfField(ticket, field_name) ==
    LET assets == IF field_name \in DOMAIN PyVal(ticket)
                  THEN PyVal(ticket)[field_name] ELSE PyList(<<>>)
    IN IF PyType(assets) = "list" THEN AssetIdsOfList(PyVal(assets), 1)
       ELSE IF PyType(assets) = "dict" /\ PyTruthy(PyGet(assets, "id"))
       THEN <<PyVal(assets)["id"]>>
       ELSE IF PyType(assets) = "int" THEN <<assets>>
       ELSE <<>>

\* Mutant of Dedup: every id found is kept.
DedupNothing(ids, k, unique) == ids

\* Deduplicate while preserving order (lines 190-196).
RECURSIVE Dedup(_, _, _)
Dedup(ids, k, unique) ==
    IF k > Len(ids) THEN unique
    ELSE IF \E j \in 1..Len(unique) : unique[j] = ids[k]
    THEN Dedup(ids, k + 1, unique)
    ELSE Dedup(ids, k + 1, Append(unique, ids[k]))

\* The list asset_ids before it is deduplicated (lines 170-188).
CollectAssetIds(ticket) ==
    LET direct == IF PyTruthy(PyGet(ticket, "asset_id"))
                  THEN <<PyVal(ticket)["asset_id"]>> ELSE <<>>
    IN direct \o AssetIdsOfField(ticket, "assets")
              \o AssetIdsOfField(ticket, "linkedassets")
              \o AssetIdsOfField(ticket, "asset")

\* _extract_asset_ids on a ticket whose ids can be members of a set
ExtractAssetIds(ticket) == Dedup(CollectAssetIds(ticket), 1, <<>>)

\* "aid not in seen", line 193, raises TypeError for a value that cannot be
\* hashed: a dict or a list.
Unhashable(x) == PyType(x) \in {"dict", "list"}

\* Step 2 of fetch_full_context, lines 79-82, on a primary record of any
\* shape: the three ids extracted, or the exception raised.  ticket.get
\* raises AttributeError when the record is not a dict.
ExtractIds(ticket) ==
    IF PyType(ticket) # "dict"
    THEN [kind |-> "raise", exc |-> "AttributeError", user_id |-> PyNone,
          client_id |-> PyNone, asset_ids |-> <<>>]
    ELSE LET found == CollectAssetIds(ticket)
         IN IF \E k \in 1..Len(found) : Unhashable(found[k])
            THEN [kind |-> "raise", exc |-> "TypeError",
                  user_id |-> ExtractUserId(ticket),
                  client_id |-> ExtractClientId(ticket), asset_ids |-> <<>>]
            ELSE [kind |-> "return", exc |-> "none",
                  user_id |-> ExtractUserId(ticket),
                  client_id |-> ExtractClientId(ticket),
                  asset_ids |-> Dedup(found, 1, <<>>)]

\* Step 3, lines 87-109: the secondary fetches issued, in order, each with
\* its label, the record-store call and the description used in errors.
SecondaryTasks(ticket) ==
    LET user_id == ExtractUserId(ticket)
        client_id == ExtractClientId(ticket)
        asset_ids == ExtractAssetIds(ticket)
    IN (IF PyTruthy(user_id)
        THEN <<[label |-> "user", op |-> "get_user", id |-> PyVal(user_id),
                desc |-> "user " \o ToString(PyVal(user_id))]>>
        ELSE <<>>)
       \o
       (IF PyTruthy(client_id)
        THEN <<[label |-> "client", op |-> "get_client", id |-> PyVal(client_id),
                desc |-> "client " \o ToString(PyVal(client_id))]>>
        ELSE <<>>)
       \o
       [k \in 1..Len(asset_ids) |->
           [label |-> "asset_" \o ToString(PyVal(asset_ids[k])), op |-> "get_asset",
            id |-> PyVal(asset_ids[k]),
            desc |-> "asset " \o ToString(PyVal(asset_ids[k]))]]

\* _safe_fetch, lines 127-144: (result, None) or (None, error message).
SafeFetch(outcome, entity_desc) ==
    IF outcome.kind = "ok"
    THEN [result |-> outcome.value, error |-> ""]
    ELSE [result |-> PyNone,
          error |-> "Failed to fetch " \o entity_desc \o ": " \o outcome.msg]

\* A merge that puts each error and each asset in front of the ones merged
\* before it: not the program's.
RECURSIVE MergeNewestFirst(_, _, _, _)
MergeNewestFirst(context, labels, results, k) ==
    IF k > Len(labels) THEN context
    ELSE LET r == results[k]
         IN MergeNewestFirst(
               IF r.error # "" THEN [context EXCEPT !.errors = <<r.error>> \o @]
               ELSE IF ~PyTruthy(r.result) THEN context
               ELSE IF labels[k] = "user" THEN [context EXCEPT !.user = r.result]
               ELSE IF labels[k] = "client" THEN [context EXCEPT !.client = r.result]
               ELSE [context EXCEPT !.assets = <<r.result>> \o @],
               labels, results, k + 1)

\* Mutant of Merge: the first failed lookup ends the merge, so the results
\* after it are lost.
RECURSIVE MergeUntilError(_, _, _, _)
MergeUntilError(context, labels, results, k) ==
    IF k > Len(labels) THEN context
    ELSE LET r == results[k]
         IN IF r.error # ""
            THEN [context EXCEPT !.errors = Append(@, r.error)]
            ELSE MergeUntilError(
                    IF ~PyTruthy(r.result) THEN context
                    ELSE IF labels[k] = "user" THEN [context EXCEPT !.user = r.result]
                    ELSE IF labels[k] = "client" THEN [context EXCEPT !.client = r.result]
                    ELSE [context EXCEPT !.assets = Append(@, r.result)],
                    labels, results, k + 1)

\* The merge loop, lines 114-123, over the labels from position k on.
RECURSIVE Merge(_, _, _, _)
Merge(context, labels, results, k) ==
    IF k > Len(labels) THEN context
    ELSE LET r == results[k]
             merged ==
                 IF r.error # ""
                 THEN [context EXCEPT !.errors = Append(@, r.error)]
                 ELSE IF PyTruthy(r.result)
                 THEN IF labels[k] = "user"
                      THEN [context EXCEPT !.user = r.result]
                      ELSE IF labels[k] = "client"
                      THEN [context EXCEPT !.client = r.result]
                      ELSE [context EXCEPT !.assets = Append(@, r.result)]
                 ELSE context
         IN Merge(merged, labels, results, k + 1)

\* Mutant of PrimaryFailed: the failure of the primary record is not recorded.
PrimaryFailedSilently(ticket_id, ticket_outcome) == EmptyContext

\* Step 1 after the gather, lines 61-77: the primary record failed.
PrimaryFailed(ticket_id, ticket_outcome) ==
    [EmptyContext EXCEPT
        !.errors = <<"Failed to fetch ticket " \o ToString(ticket_id) \o ": "
                     \o ticket_outcome.msg>>]

\* Mutant of PrimaryFetched: a failed history fetch is treated like a failed
\* primary fetch.
PrimaryFetchedOrNothing(ticket_outcome, actions_outcome) ==
    IF actions_outcome.kind = "ok"
    THEN [EmptyContext EXCEPT
            !.ticket = ticket_outcome.value,
            !.actions = IF PyTruthy(actions_outcome.value)
                        THEN PyVal(actions_outcome.value) ELSE <<>>]
    ELSE [EmptyContext EXCEPT
            !.errors = <<"Failed to fetch ticket history: " \o actions_outcome.msg>>]

\* Step 1 after the gather, lines 61-71: the primary record arrived.
PrimaryFetched(ticket_outcome, actions_outcome) ==
    IF actions_outcome.kind = "ok"
    THEN [EmptyContext EXCEPT
            !.ticket = ticket_outcome.value,
            !.actions = IF PyTruthy(actions_outcome.value)
                        THEN PyVal(actions_outcome.value) ELSE <<>>]
    ELSE [EmptyContext EXCEPT
            !.ticket = ticket_outcome.value,
            !.errors = <<"Failed to fetch ticket history: " \o actions_outcome.msg>>]

(***************************************************************************)
(* ContextFormatter.format (context/formatter.py, lines 14-50): the        *)
(* sections, in order; each section body is kept as its heading.           *)
(***************************************************************************)
Rule == "============================================================"

\* _format_errors, lines 244-250
FormatErrors(errors) ==
    <<"### FETCH WARNINGS", "Some context could not be fetched:">>
    \o [k \in 1..Len(errors) |-> "  - " \o errors[k]]

Format(context) ==
    <<Rule, "ADDITIONAL CONTEXT FROM HALO (Pre-fetched)", Rule>>
    \o (IF PyTruthy(context.ticket) THEN <<"### TICKET DETAILS">> ELSE <<>>)
    \o (IF Len(context.actions) > 0 THEN <<"### TICKET HISTORY">> ELSE <<>>)
    \o (IF PyTruthy(context.user) THEN <<"### USER INFORMATION">> ELSE <<>>)
    \o (IF PyTruthy(context.client) THEN <<"### CLIENT/COMPANY INFORMATION">> ELSE <<>>)
    \o (IF Len(context.assets) > 0 THEN <<"### LINKED ASSETS">> ELSE <<>>)
    \o (IF Len(context.errors) > 0 THEN FormatErrors(context.errors) ELSE <<>>)
    \o <<Rule>>

\* A section formatter calls .get on its argument (lines 56, 149, 176, 209):
\* format raises AttributeError when a true section value is not a dict.
FormatRaises(context) ==
    \/ PyTruthy(context.ticket) /\ PyType(context.ticket) # "dict"
    \/ PyTruthy(context.user) /\ PyType(context.user) # "dict"
    \/ PyTruthy(context.client) /\ PyType(context.client) # "dict"
    \/ \E k \in 1..Len(context.assets) : PyType(context.assets[k]) # "dict"

\* f"{system_prompt}\n\n{formatted}", injector.py line 85
Injected(prompt, formatted) == Text(prompt.text \o <<"\n\n">> \o formatted)

(***************************************************************************)
(* The cache of ContextInjector (context/injector.py).                     *)
(***************************************************************************)
\* Mutant of IsFresh: an entry whose age equals the ttl is still served.
IsFreshInclusive(now, cached_at) == now - cached_at <= cache_ttl

\* line 110: the entry is served
IsFresh(now, cached_at) == now - cached_at < cache_ttl

\* Mutant of IsExpired: an entry whose age equals the ttl is not swept.
IsExpiredStrict(now, cached_at) == now - cached_at > cache_ttl

\* line 132: the entry is swept
IsExpired(now, cached_at) == now - cached_at >= cache_ttl

\* Mutant of CacheHit: an entry is served only in the first half of its ttl.
CacheHitFirstHalf(ticket_id, now) ==
    /\ ticket_id \in DOMAIN cache
    /\ 2 * (now - cache[ticket_id].cached_at) < cache_ttl

\* lines 108-112
CacheHit(ticket_id, now) ==
    /\ ticket_id \in DOMAIN cache
    /\ IsFresh(now, cache[ticket_id].cached_at)

\* Mutant of CachePut: an entry that is replaced keeps its timestamp.
CachePutKeepStamp(c, ticket_id, context, now) ==
    [i \in DOMAIN c \cup {ticket_id} |->
        IF i = ticket_id
        THEN [context |-> context,
              cached_at |-> IF i \in DOMAIN c THEN c[i].cached_at ELSE now]
        ELSE c[i]]

\* Mutant of CachePut: the entry is stamped with the time of the write,
\* not with the time taken when the lookup started.
CachePutAtCompletion(c, ticket_id, context, now) ==
    [i \in DOMAIN c \cup {ticket_id} |->
        IF i = ticket_id THEN [context |-> context, cached_at |-> clock] ELSE c[i]]

\* self._cache[ticket_id] = (context, now), line 121
CachePut(c, ticket_id, context, now) ==
    [i \in DOMAIN c \cup {ticket_id} |->
        IF i = ticket_id THEN [context |-> context, cached_at |-> now] ELSE c[i]]

\* _cleanup_cache, lines 128-135
CleanupCache(c, now) ==
    [i \in {j \in DOMAIN c : ~IsExpired(now, c[j].cached_at)} |-> c[i]]

(***************************************************************************)
(* The record store as seen by the fetcher, and the callers of the         *)
(* injector.                                                               *)
(***************************************************************************)
Tasks == {"t1", "t2"}

TtlChoices == {0, 2}

\* "Ticket #1"; "[Ticket: 2]"; "hello #12"; "Ticket #0"; the empty prompt;
\* no prompt.
Prompts ==
    {Text(<<"Ticket", " ", "#", "1">>),
     Text(<<"[", "Ticket", ":", " ", "2", "]">>),
     Text(<<"hello", " ", "#", "12">>),
     Text(<<"Ticket", " ", "#", "0">>),
     Text(<<>>),
     NoText}

\* "Ticket 12": the prompt of a ticket that links two assets.
TwoAssetsPrompt == Text(<<"Ticket", " ", "12">>)

\* self.parser.parse(system_prompt) for each of the prompts (injector.py
\* line 70).
ParsedPrompts == [p \in Prompts \cup {TwoAssetsPrompt} |-> Parse(p)]

\* The tickets of the store: ticket 1 links a user (bare id), a client
\* (embedded object) and one asset given twice (bare id and embedded
\* object); ticket 12 links a user (under reportedby), a client and the
\* assets 8 and 7, in this order of first occurrence; the other tickets
\* link nothing.
TicketRecord(id) ==
    IF id = 1
    THEN PyDict([id |-> PyInt(1), user_id |-> PyInt(5),
                 client |-> PyDict([id |-> PyInt(6)]),
                 assets |-> PyList(<<PyInt(7), PyDict([id |-> PyInt(7)])>>)])
    ELSE IF id = 12
    THEN PyDict([id |-> PyInt(12), reportedby |-> PyInt(5),
                 client_id |-> PyInt(6), asset_id |-> PyInt(8),
                 assets |-> PyList(<<PyInt(7), PyDict([id |-> PyInt(8)])>>)])
    ELSE PyDict([id |-> PyInt(id), summary |-> PyInt(0)])

\* What a record-store call may do: answer with the record ("ok"), raise
\* ("raise"), or answer with an unexpected JSON value ("odd": a list for a
\* ticket, null for the history, a list for a client, an empty object for
\* the others).
StoreAnswer(op, id, how) ==
    IF how = "raise"
    THEN [kind |-> "raise", value |-> PyNone, msg |-> "503 Service Unavailable"]
    ELSE IF how = "odd"
    THEN [kind |-> "ok", msg |-> "",
          value |-> IF op = "get_ticket" THEN PyList(<<>>)
                    ELSE IF op = "get_ticket_actions" THEN PyNone
                    ELSE IF op = "get_client" THEN PyList(<<PyInt(id)>>)
                    ELSE PyDict(EmptyDict)]
    ELSE [kind |-> "ok", msg |-> "",
          value |-> IF op = "get_ticket" THEN TicketRecord(id)
                    ELSE IF op = "get_ticket_actions"
                    THEN PyList(<<PyDict([note |-> PyInt(id)])>>)
                    ELSE PyDict([id |-> PyInt(id)])]

NoOutcomes == [l \in {} |-> StoreAnswer("none", 0, "raise")]

\* The locals of one inject_context call.  The fields cleared and reordered
\* are history, read by the properties only: clear_cache was called while
\* this call was in flight; one of its fetches completed before a fetch
\* that was issued before it.
IdleTask ==
    [pc |-> "idle", prompt |-> NoText, ticket_id |-> 0, now |-> 0,
     context |-> EmptyContext, tasks |-> <<>>, pending |-> {},
     outcomes |-> NoOutcomes, issued |-> <<>>, ret |-> NoText, how |-> "none",
     end |-> "none", cleared |-> FALSE, reordered |-> FALSE]

EmptyCache == [i \in {} |-> [context |-> EmptyContext, cached_at |-> 0]]

\* History read by the properties only: the inject_context calls made, the
\* record-store calls that failed, the calls served from the cache, whether
\* two lookups of one ticket id ever overlapped, and per ticket id the start
\* time of the last lookup that fetched and completed since the cache was
\* last cleared (-1: none), and whether a write ever replaced an entry by
\* one with a smaller timestamp.
TicketIds == {1, 2}

NoLastFetch == [i \in TicketIds \cup {12} |-> -1]

NoHistory ==
    [calls |-> 0, failures |-> 0, hits |-> 0, overlap |-> FALSE,
     last_fetch |-> NoLastFetch, lowered |-> FALSE]

\* The entry of ticket id in the cache after is one with a smaller
\* timestamp than its entry before.
Lowers(before, after, id) ==
    /\ id \in DOMAIN before
    /\ id \in DOMAIN after
    /\ after[id].cached_at < before[id].cached_at

\* A task that has returned hands its result to its caller before any
\* other task runs: the return is not a suspension point.
NoneDone == \A u \in Tasks : task[u].pc # "done"

InjInit ==
    /\ enabled \in BOOLEAN
    /\ cache_ttl \in TtlChoices
    /\ cache = EmptyCache
    /\ clock = 0
    /\ task = [t \in Tasks |-> IdleTask]
    /\ callers = {"t1"}
    /\ hist = NoHistory

\* inject_context returns the original prompt without a lookup (lines
\* 61-73).
PassThrough(tk, prompt, how) ==
    [tk EXCEPT !.pc = "done", !.prompt = prompt, !.ret = prompt, !.how = how,
               !.pending = {}, !.end = "return"]

\* Mutant of Caught: the exception leaves inject_context.
Uncaught(tk) ==
    [tk EXCEPT !.pc = "done", !.ret = NoText, !.pending = {}, !.end = "raised"]

\* The except clause of inject_context, lines 90-93: the exception is logged
\* and the original prompt returned.
Caught(tk) ==
    [tk EXCEPT !.pc = "done", !.ret = tk.prompt, !.pending = {}, !.end = "caught"]

\* inject_context from line 82, with the context obtained: it is formatted
\* and appended to the prompt, or the exception of format is caught.
FormatAndInject(tk, context, how) ==
    LET got == [tk EXCEPT !.context = context, !.how = how]
    IN IF FormatRaises(context)
       THEN Caught(got)
       ELSE [got EXCEPT !.pc = "done", !.pending = {}, !.end = "return",
                        !.ret = Injected(tk.prompt, Format(context))]

\* Mutant of Finish: a lookup that was in flight when the cache was
\* cleared does not write its bundle.
FinishUnlessCleared(tk, c, context) ==
    [task |-> FormatAndInject(tk, context, "fetched"),
     cache |-> IF tk.cleared THEN c
               ELSE CleanupCache(CachePut(c, tk.ticket_id, context, tk.now), tk.now),
     completed |-> TRUE]

\* _get_or_fetch_context from line 121 and inject_context from line 82, once
\* fetch_full_context has returned the context: the cache is written and
\* swept, the context is formatted and appended to the prompt.  The value
\* is the task's new state, the new cache and whether the lookup completed.
Finish(tk, c, context) ==
    [task |-> FormatAndInject(tk, context, "fetched"),
     cache |-> CleanupCache(CachePut(c, tk.ticket_id, context, tk.now), tk.now),
     completed |-> TRUE]

\* The secondary fetches are issued (fetcher.py lines 87-112).
IssueSecondary(tk, context, tasks) ==
    [tk EXCEPT !.pc = "step3", !.context = context, !.tasks = tasks,
               !.pending = {tasks[k].label : k \in 1..Len(tasks)},
               !.issued = @ \o [k \in 1..Len(tasks) |->
                                  [op |-> tasks[k].op, id |-> tasks[k].id]]]

\* fetch_full_context once the ticket and its history have both completed
\* (fetcher.py lines 61-112).
AfterStep1(tk, c, outcomes) ==
    IF outcomes["ticket"].kind = "raise"
    THEN Finish(tk, c, PrimaryFailed(tk.ticket_id, outcomes["ticket"]))
    ELSE LET context == PrimaryFetched(outcomes["ticket"], outcomes["actions"])
         IN IF PyType(context.ticket) # "dict"
            THEN \* ticket.get raises AttributeError, caught at injector.py line 90
                 [task |-> Caught([tk EXCEPT !.context = context,
                                             !.how = "exception"]),
                  cache |-> c, completed |-> FALSE]
            ELSE IF Len(SecondaryTasks(context.ticket)) = 0
            THEN Finish(tk, c, context)
            ELSE [task |-> IssueSecondary(tk, context, SecondaryTasks(context.ticket)),
                  cache |-> c, completed |-> FALSE]

\* The results of the secondary fetches in the order of the task list.
GatherResults(tasks, outcomes) ==
    [k \in 1..Len(tasks) |-> SafeFetch(outcomes[tasks[k].label], tasks[k].desc)]

\* fetch_full_context once every secondary fetch has completed
\* (fetcher.py lines 112-125).
AfterStep3(tk, c, outcomes) ==
    Finish(tk, c, Merge(tk.context,
                        [k \in 1..Len(tk.tasks) |-> tk.tasks[k].label],
                        GatherResults(tk.tasks, outcomes), 1))

\* inject_context up to its first suspension (lines 61-79, 105-118, and
\* fetcher.py lines 48-59): the early returns, the cache hit, which is
\* formatted and returned at once, or the miss, which issues the fetches of
\* the ticket and of its history.
Inject(t, prompt) ==
    /\ NoneDone
    /\ t \in callers
    /\ task[t].pc = "idle"
    /\ t = "t2" => task["t1"].pc # "idle"
    /\ hist.calls < MaxCalls
    /\ LET parsed == ParsedPrompts[prompt]
           now == clock
       IN IF ~enabled \/ ~TextTruthy(prompt) \/ ~IdTruthy(parsed)
          THEN /\ task' = [task EXCEPT ![t] = PassThrough(@, prompt, "passed")]
               /\ hist' = [hist EXCEPT !.calls = @ + 1]
               /\ UNCHANGED cache
          ELSE IF CacheHit(parsed.id, now)
          THEN /\ task' = [task EXCEPT ![t] =
                              FormatAndInject([@ EXCEPT !.prompt = prompt,
                                                        !.ticket_id = parsed.id,
                                                        !.now = now],
                                              cache[parsed.id].context, "hit")]
               /\ hist' = [hist EXCEPT !.calls = @ + 1, !.hits = @ + 1]
               /\ UNCHANGED cache
          ELSE /\ task' = [task EXCEPT ![t] =
                              [@ EXCEPT !.pc = "fetching", !.prompt = prompt,
                                        !.ticket_id = parsed.id, !.now = now,
                                        !.pending = {"ticket", "actions"},
                                        !.issued = <<[op |-> "get_ticket", id |-> parsed.id],
                                                     [op |-> "get_ticket_actions",
                                                      id |-> parsed.id]>>]]
               /\ hist' = [hist EXCEPT
                              !.calls = @ + 1,
                              !.overlap = @ \/ \E u \in Tasks \ {t} :
                                                 /\ task[u].pc = "fetching"
                                                 /\ task[u].ticket_id = parsed.id]
               /\ UNCHANGED cache
    /\ UNCHANGED <<enabled, cache_ttl, clock, callers>>
    /\ UNCHANGED <<exec_vars, lib_vars>>

\* The record-store call behind a pending fetch.
PendingCall(tk, label) ==
    IF label = "ticket" THEN [op |-> "get_ticket", id |-> tk.ticket_id]
    ELSE IF label = "actions" THEN [op |-> "get_ticket_actions", id |-> tk.ticket_id]
    ELSE LET k == CHOOSE j \in 1..Len(tk.tasks) : tk.tasks[j].label = label
         IN [op |-> tk.tasks[k].op, id |-> tk.tasks[k].id]

\* What the record store does with the calls of one fetch_full_context: for
\* each label, how the call behind it is answered.
Hows == {"ok", "raise", "odd"}
Labels == {"ticket", "actions", "user", "client", "asset_7"}

\* The number of calls that are not answered with the record.
Failing(hows) == Cardinality({l \in Labels : hows[l] # "ok"})

\* The unexpected values are tried for the ticket, its history, the user
\* and the client.
AnswerPatterns ==
    {hows \in [Labels -> Hows] :
        /\ Failing(hows) <= MaxFailures
        /\ hows["asset_7"] # "odd"}

\* The answers to the pending calls of a gather.
AnswersOf(tk, hows) ==
    [l \in tk.pending |->
        LET call == PendingCall(tk, l) IN StoreAnswer(call.op, call.id, hows[l])]

\* fetch_full_context from its first suspension to its return, and the rest
\* of _get_or_fetch_context and inject_context after it.
Fetched(tk, c, hows) ==
    LET o1 == AnswersOf(tk, hows)
        first == AfterStep1([tk EXCEPT !.outcomes = o1], c, o1)
    IN IF first.task.pc = "step3"
       THEN LET o3 == AnswersOf(first.task, hows)
            IN AfterStep3([first.task EXCEPT !.outcomes = o3 @@ o1], c, o3)
       ELSE first

\* The labels of the calls that fetch_full_context awaited.
Awaited(tk, c, hows) ==
    LET o1 == AnswersOf(tk, hows)
        first == AfterStep1([tk EXCEPT !.outcomes = o1], c, o1)
    IN tk.pending \cup (IF first.task.pc = "step3" THEN first.task.pending ELSE {})

\* The record store answers the calls of a task's fetch_full_context, and
\* the task runs on to the return of inject_context.  While it awaits, the
\* task touches neither the cache nor the clock, so its gathers complete in
\* one step.
FetchReturnsWith(t, patterns) ==
    /\ NoneDone
    /\ task[t].pc = "fetching"
    /\ \E hows \in patterns :
          LET next == Fetched(task[t], cache, hows)
              awaited == Awaited(task[t], cache, hows)
              failed == Cardinality({l \in awaited : hows[l] # "ok"})
          IN /\ hist.failures + Failing(hows) <= MaxFailures
             /\ \A l \in Labels \ awaited : hows[l] = "ok"
             /\ task' = [task EXCEPT ![t] = next.task]
             /\ cache' = next.cache
             /\ hist' = [hist EXCEPT
                            !.failures = @ + failed,
                            !.last_fetch[task[t].ticket_id] =
                                         IF next.completed THEN task[t].now ELSE @,
                            !.lowered = @ \/ Lowers(cache, next.cache,
                                                    task[t].ticket_id)]
    /\ UNCHANGED <<enabled, cache_ttl, clock, callers>>
    /\ UNCHANGED <<exec_vars, lib_vars>>

FetchReturns(t) == FetchReturnsWith(t, AnswerPatterns)

\* await asyncio.gather(...), fetcher.py lines 56-60 and 112: the task is
\* resumed when none of the gathered calls is pending.
ResumeAfter(tk, pending) == pending = {}

\* The call labelled a was passed to asyncio.gather before the call
\* labelled b (fetcher.py lines 56-60: ticket, actions; line 112: the
\* tasks in list order).
IssuedBefore(tk, a, b) ==
    IF tk.pc = "fetching" THEN a = "ticket" /\ b = "actions"
    ELSE \E i, j \in 1..Len(tk.tasks) :
            i < j /\ tk.tasks[i].label = a /\ tk.tasks[j].label = b

\* The same fetch_full_context call by call: the record store answers one
\* pending call of the task, in any order; the answer to the last pending
\* call of a gather resumes the task, which runs on to its next gather or
\* to the return of inject_context.
FetchStep(t) ==
    /\ NoneDone
    /\ task[t].pc \in {"fetching", "step3"}
    /\ \E l \in task[t].pending, how \in Hows :
          LET call == PendingCall(task[t], l)
              answered == [task[t] EXCEPT
                              !.pending = @ \ {l},
                              !.outcomes = (l :> StoreAnswer(call.op, call.id, how)) @@ @,
                              !.reordered = @ \/ \E earlier \in task[t].pending :
                                                    IssuedBefore(task[t], earlier, l)]
              next == IF task[t].pc = "fetching"
                      THEN AfterStep1(answered, cache, answered.outcomes)
                      ELSE AfterStep3(answered, cache, answered.outcomes)
          IN /\ how # "ok" => hist.failures < MaxFailures
             /\ l = "asset_7" => how # "odd"
             /\ IF ResumeAfter(task[t], answered.pending)
                THEN /\ task' = [task EXCEPT ![t] = next.task]
                     /\ cache' = next.cache
                     /\ hist' = [hist EXCEPT
                                    !.failures = IF how = "ok" THEN @ ELSE @ + 1,
                                    !.last_fetch[task[t].ticket_id] =
                                        IF next.completed THEN task[t].now ELSE @,
                                    !.lowered = @ \/ Lowers(cache, next.cache,
                                                            task[t].ticket_id)]
                ELSE /\ task' = [task EXCEPT ![t] = answered]
                     /\ hist' = [hist EXCEPT
                                    !.failures = IF how = "ok" THEN @ ELSE @ + 1]
                     /\ UNCHANGED cache
    /\ UNCHANGED <<enabled, cache_ttl, clock, callers>>
    /\ UNCHANGED <<exec_vars, lib_vars>>

\* The caller takes the result; the task may call inject_context again.
Release(t) ==
    /\ task[t].pc = "done"
    /\ task' = [task EXCEPT ![t] = IdleTask]
    /\ UNCHANGED <<enabled, cache_ttl, cache, clock, callers, hist>>
    /\ UNCHANGED <<exec_vars, lib_vars>>

\* Time passes.
Tick ==
    /\ NoneDone
    /\ clock < MaxTime
    /\ clock' = clock + 1
    /\ UNCHANGED <<enabled, cache_ttl, cache, task, callers, hist>>
    /\ UNCHANGED <<exec_vars, lib_vars>>

\* clear_cache, lines 137-140: the dict is emptied; the calls in flight
\* are not touched (they are marked in the history).
ClearCache ==
    /\ NoneDone
    /\ DOMAIN cache # {}
    /\ cache' = EmptyCache
    /\ hist' = [hist EXCEPT !.last_fetch = NoLastFetch]
    /\ task' = [t \in Tasks |->
                   IF task[t].pc = "idle" THEN task[t]
                   ELSE [task[t] EXCEPT !.cleared = TRUE]]
    /\ UNCHANGED <<enabled, cache_ttl, clock, callers>>
    /\ UNCHANGED <<exec_vars, lib_vars>>

(***************************************************************************)
(* Properties of the context cache and of the fetch of the primary record. *)
(***************************************************************************)
\* The task t starts a lookup (_get_or_fetch_context) for ticket id in this
\* step.
StartsLookup(t, id) ==
    /\ task[t].pc = "idle"
    /\ task'[t].pc # "idle"
    /\ task'[t].ticket_id = id

\* The lookup that t starts in this step calls fetch_full_context.
IssuesFetch(t) == task'[t].pc = "fetching"

\* The lookups of ticket id were made one after the other so far.
Sequential(id) ==
    /\ ~hist'.overlap
    /\ \A u \in Tasks : ~(task[u].pc = "fetching" /\ task[u].ticket_id = id)

C7_Step ==
    \A t \in Tasks, id \in TicketIds :
       (StartsLookup(t, id) /\ Sequential(id)) =>
          LET fetched_at == hist.last_fetch[id]
              now == task'[t].now
          IN /\ now = clock
             /\ fetched_at = -1 => IssuesFetch(t)
             /\ (fetched_at >= 0 /\ now - fetched_at < cache_ttl) => ~IssuesFetch(t)
             /\ (fetched_at >= 0 /\ now - fetched_at >= cache_ttl) => IssuesFetch(t)

\* C7: cache idempotence.  Of the lookups of one ticket id made one after
\* the other, the first calls fetch_full_context; a lookup that starts less
\* than cache_ttl after the start of the last lookup that fetched calls
\* nothing, so that the two issue exactly one fetch; a lookup that starts
\* when that age has reached cache_ttl calls fetch_full_context again.
C7_CacheIdempotence == [][C7_Step]_vars

\* The third lookup of ticket 1, at time 2 with a ttl of 2: the first fetched
\* at time 0, the second was served from the cache, the third fetches.
C7_Witness ==
    /\ cache_ttl = 2
    /\ hist.calls = 3
    /\ hist.hits = 1
    /\ ~hist.overlap
    /\ hist.last_fetch[1] = 0
    /\ task["t1"].pc = "fetching"
    /\ task["t1"].ticket_id = 1
    /\ task["t1"].now = 2

C8_Step ==
    \A t \in Tasks, id \in TicketIds :
       (/\ StartsLookup(t, id)
        /\ id \in DOMAIN cache
        /\ clock - cache[id].cached_at < cache_ttl) =>
          /\ task'[t].pc = "done"
          /\ task'[t].context = cache[id].context
          /\ task'[t].issued = <<>>
          /\ cache' = cache

\* C8: a lookup that finds an entry for its ticket id whose age is below
\* cache_ttl returns the stored bundle without suspending, issues no
\* record-store call, and leaves the whole cache as it was: no entry is
\* added, removed, re-timestamped or swept.
C8_HitLeavesCache == [][C8_Step]_vars

\* A lookup was served from the cache while the cache held an entry.
C8_Witness ==
    \E t \in Tasks :
       /\ task[t].pc = "done"
       /\ task[t].how = "hit"
       /\ task[t].ticket_id \in DOMAIN cache
       /\ task[t].context = cache[task[t].ticket_id].context

\* fetch_full_context of task t has returned after the fetch of the ticket
\* raised.
PrimaryFetchFailed(t) ==
    /\ task[t].pc = "done"
    /\ "ticket" \in DOMAIN task[t].outcomes
    /\ task[t].outcomes["ticket"].kind = "raise"

SecondaryOps == {"get_user", "get_client", "get_asset"}

\* C9: when the fetch of the ticket fails, fetch_full_context returns a
\* bundle without ticket, history, user, client or assets and with at least
\* one error string, and it has issued no fetch of a user, a client or an
\* asset; this holds whether the fetch of the history succeeded or failed.
C9_PrimaryFailure ==
    \A t \in Tasks :
       PrimaryFetchFailed(t) =>
          /\ "actions" \in DOMAIN task[t].outcomes
          /\ task[t].context.ticket = PyNone
          /\ task[t].context.actions = <<>>
          /\ task[t].context.user = PyNone
          /\ task[t].context.client = PyNone
          /\ task[t].context.assets = <<>>
          /\ Len(task[t].context.errors) >= 1
          /\ \A k \in 1..Len(task[t].issued) : task[t].issued[k].op \notin SecondaryOps

\* The fetch of ticket 1, which links a user, a client and an asset, failed
\* while the fetch of its history failed too.
C9_Witness ==
    /\ PrimaryFetchFailed("t1")
    /\ task["t1"].ticket_id = 1
    /\ task["t1"].outcomes["actions"].kind = "raise"

\* C10: when the fetch of the ticket parsed from the prompt fails,
\* inject_context returns the original prompt unchanged.
C10_FallsBackToPrompt ==
    \A t \in Tasks : PrimaryFetchFailed(t) => task[t].ret = task[t].prompt

(***************************************************************************)
(* C11: secondary failures are isolated per lookup.                        *)
(***************************************************************************)
\* The task's fetch_full_context has returned after its secondary fetches.
SecondaryFetched(t) ==
    /\ task[t].pc = "done"
    /\ task[t].how = "fetched"
    /\ Len(task[t].tasks) > 0

\* The error string _safe_fetch builds for a failed secondary fetch.
SecondaryError(tk, k) ==
    "Failed to fetch " \o tk.tasks[k].desc \o ": " \o tk.outcomes[tk.tasks[k].label].msg

\* The positions of the task list whose fetch raised, in order.
RECURSIVE FailedFrom(_, _)
FailedFrom(tk, k) ==
    IF k > Len(tk.tasks) THEN <<>>
    ELSE (IF tk.outcomes[tk.tasks[k].label].kind = "raise" THEN <<k>> ELSE <<>>)
         \o FailedFrom(tk, k + 1)

\* The error string of the history fetch, which precedes those of the
\* secondary fetches when the history failed.
HistoryError == "Failed to fetch ticket history: 503 Service Unavailable"

\* The record a secondary fetch returned is in the bundle.
InBundle(context, label, value) ==
    IF label = "user" THEN context.user = value
    ELSE IF label = "client" THEN context.client = value
    ELSE \E j \in 1..Len(context.assets) : context.assets[j] = value

CallsInject(t) == task[t].pc = "idle" /\ task'[t].pc # "idle"

C12_Step ==
    \A t \in Tasks :
       (/\ CallsInject(t)
        /\ \/ ~enabled
           \/ ~TextTruthy(task'[t].prompt)
           \/ ~ParsedPrompts[task'[t].prompt].found) =>
          /\ task'[t].pc = "done"
          /\ task'[t].end = "return"
          /\ task'[t].ret = task'[t].prompt
          /\ task'[t].issued = <<>>
          /\ cache' = cache

\* C12: when injection is disabled, the prompt is empty or absent, or no
\* identifier is recognised in it, inject_context returns its input
\* unchanged without suspending, issues no record-store call and leaves the
\* cache as it was.
C12_PassThrough == [][C12_Step]_vars

\* With injection enabled and an entry in the cache, a prompt without an
\* identifier was passed through.
C12_Witness ==
    /\ enabled
    /\ DOMAIN cache # {}
    /\ task["t1"].pc = "done"
    /\ task["t1"].how = "passed"
    /\ task["t1"].prompt = Text(<<"hello", " ", "#", "12">>)
    /\ task["t1"].ret = task["t1"].prompt

\* An exception reached the except clause of inject_context: ticket.get
\* raised in fetch_full_context, or format raised.
ExceptionCaught(t) ==
    /\ task[t].pc = "done"
    /\ \/ task[t].how = "exception"
       \/ task[t].how \in {"hit", "fetched"} /\ FormatRaises(task[t].context)

C16_FailedNeverCached ==
    \A i \in DOMAIN cache : cache[i].context.ticket # PyNone

\* A lookup within the ttl was served the cached bundle of a failed ticket
\* fetch, without a fetch of its own.
C16_Witness ==
    \E t \in Tasks :
       /\ task[t].pc = "done"
       /\ task[t].how = "hit"
       /\ task[t].issued = <<>>
       /\ task[t].context.ticket = PyNone
       /\ Len(task[t].context.errors) = 1

(***************************************************************************)
(* C14: TicketIdParser.parse on its own.  The texts are up to MaxPhrases    *)
(* phrases joined by single spaces.                                        *)
(***************************************************************************)
MaxPhrases == 3

\* "Ticket #1"; "ticket 12"; "ticket_id: 2"; "[Ticket: 2]"; "/tickets/1";
\* "#1234"; "#12"; "TICKET"; "hello"; "# 0".
Phrases ==
    << <<"Ticket", " ", "#", "1">>,
       <<"ticket", " ", "12">>,
       <<"ticket", "_", "id", ":", " ", "2">>,
       <<"[", "Ticket", ":", " ", "2", "]">>,
       <<"/", "tickets", "/", "1">>,
       <<"#", "1234">>,
       <<"#", "12">>,
       <<"TICKET">>,
       <<"hello">>,
       <<"#", " ", "0">> >>

RECURSIVE JoinPhrases(_, _)
JoinPhrases(choice, k) ==
    IF k > Len(choice) THEN <<>>
    ELSE (IF k > 1 THEN <<" ">> ELSE <<>>) \o Phrases[choice[k]]
         \o JoinPhrases(choice, k + 1)

ParseArgs ==
    {NoText} \cup
    {Text(JoinPhrases(choice, 1)) :
        choice \in UNION {[1..n -> 1..Len(Phrases)] : n \in 0..MaxPhrases}}

\* No call of parse has been made.
ParseAtRest ==
    /\ parse_arg = NoText
    /\ parse_ret = [found |-> FALSE, id |-> 0]

\* No call of _extract_asset_ids has been made.
ExtractAtRest ==
    /\ extract_arg = PyDict(EmptyDict)
    /\ extract_ret = <<>>

\* No call of fix_messages has been made: the caller holds an empty list.
FixAtRest ==
    /\ heap_lists = [r \in {"messages"} |-> <<>>]
    /\ heap_dicts = <<>>
    /\ fix_arg = "messages"
    /\ fix_in = <<>>
    /\ fix_ret = "messages"
    /\ fix_calls = 0

LibAtRest ==
    /\ lib_pc = "idle"
    /\ ParseAtRest
    /\ ExtractAtRest
    /\ FixAtRest

\* parser.parse(system_prompt)
ParseCall ==
    /\ lib_pc = "idle"
    /\ lib_pc' = "done"
    /\ parse_ret' = Parse(parse_arg)
    /\ UNCHANGED <<parse_arg, extract_arg, extract_ret, fix_vars, exec_vars, inj_vars>>

\* The rules that match somewhere in the argument.
MatchingRules ==
    {k \in 1..Len(TICKET_ID_PATTERNS) :
        Matches(TICKET_ID_PATTERNS[k], parse_arg.text)}

MaxAssets == 2

\* A key the ticket does not have.
Absent == [absent |-> TRUE]

\* An asset embedded as an object.
AssetObject(n) == PyDict([id |-> PyInt(n)])

\* The elements of an assets list: bare ids, embedded objects, null.
ListElements ==
    {PyInt(0), PyInt(7), PyInt(8), AssetObject(0), AssetObject(7), AssetObject(8),
     PyNone}

AssetLists ==
    {PyList(l) : l \in UNION {[1..n -> ListElements] : n \in 0..MaxAssets}}

\* The ticket with the given values under asset_id, assets, linkedassets and
\* asset.
TicketWith(a, b, c, d) ==
    LET all == [asset_id |-> a, assets |-> b, linkedassets |-> c, asset |-> d]
    IN PyDict([k \in {f \in DOMAIN all : all[f] # Absent} |-> all[k]])

ExtractArgs ==
    {TicketWith(a, b, c, d) :
        a \in {Absent, PyNone, PyInt(0), PyInt(7)},
        b \in AssetLists \cup {Absent, AssetObject(8), PyInt(8)},
        c \in {Absent, PyList(<<PyInt(8)>>), PyList(<<AssetObject(7)>>)},
        d \in {Absent, PyInt(7), PyInt(0), AssetObject(0), AssetObject(9)}}

\* self._extract_asset_ids(ticket)
ExtractCall ==
    /\ lib_pc = "idle"
    /\ lib_pc' = "done"
    /\ extract_ret' = ExtractAssetIds(extract_arg)
    /\ UNCHANGED <<extract_arg, parse_arg, parse_ret, fix_vars, exec_vars, inj_vars>>

\* The id a value stands for: a bare integer is its own id, an embedded
\* object stands for the integer under its id key.
IdsOfValue(v) ==
    IF PyType(v) = "int" THEN <<v>>
    ELSE IF PyType(v) = "dict" /\ "id" \in DOMAIN PyVal(v)
             /\ PyType(PyVal(v)["id"]) = "int"
    THEN <<PyVal(v)["id"]>>
    ELSE <<>>

RECURSIVE IdsOfValues(_, _)
IdsOfValues(l, k) ==
    IF k > Len(l) THEN <<>> ELSE IdsOfValue(l[k]) \o IdsOfValues(l, k + 1)

\* The ids present under one key of the ticket.
IdsUnder(ticket, key) ==
    IF key \notin DOMAIN PyVal(ticket) THEN <<>>
    ELSE LET v == PyVal(ticket)[key]
         IN IF PyType(v) = "list" THEN IdsOfValues(PyVal(v), 1) ELSE IdsOfValue(v)

\* The ids present in the ticket in scan order: asset_id, assets,
\* linkedassets, asset.
IdsPresent(ticket) ==
    IdsUnder(ticket, "asset_id") \o IdsUnder(ticket, "assets")
    \o IdsUnder(ticket, "linkedassets") \o IdsUnder(ticket, "asset")

\* The first occurrences of a sequence, in order.
RECURSIVE FirstOccurrences(_, _)
FirstOccurrences(ids, k) ==
    IF k > Len(ids) THEN <<>>
    ELSE (IF \E j \in 1..(k - 1) : ids[j] = ids[k] THEN <<>> ELSE <<ids[k]>>)
         \o FirstOccurrences(ids, k + 1)

\* C15: _extract_asset_ids returns each asset id once, in the order of first
\* occurrence over asset_id, assets, linkedassets, asset, a bare integer and
\* an embedded object with that id being the same id, and the result holds
\* exactly the ids present in the ticket.
C15_DedupInOrder ==
    lib_pc = "done" =>
       extract_ret = FirstOccurrences(IdsPresent(extract_arg), 1)

\* The same for tickets in which no id is 0.
NoZeroId(ticket) ==
    \A k \in 1..Len(IdsPresent(ticket)) : IdsPresent(ticket)[k] # PyInt(0)

DedupInOrderOfNonZero ==
    (lib_pc = "done" /\ NoZeroId(extract_arg)) =>
       extract_ret = FirstOccurrences(IdsPresent(extract_arg), 1)

(***************************************************************************)
(* MessageFixer (proxy/message_fixer.py).  Lists and message dicts are     *)
(* objects: a list holds references to dicts, and an assignment to         *)
(* messages[i]["content"] changes the dict for every list that holds it.   *)
(***************************************************************************)
MaxMessages == 2

EMPTY_CONTENT_REPLACEMENT ==
    "Please provide your response based on the instructions above."

ASSISTANT_ENDING_APPEND ==
    "Now provide your response based on the instructions and conversation above."

\* msg.get(key)
MsgGet(msg, key) == IF key \in DOMAIN msg THEN msg[key] ELSE None

\* msg[key] = value
MsgSet(msg, key, value) ==
    [k \in DOMAIN msg \cup {key} |-> IF k = key THEN value ELSE msg[k]]

\* The messages a caller may pass: with and without content, with and
\* without role.
MessageDicts ==
    [role : {"user", "assistant", "system"},
     content : {None, "", "Hello", EMPTY_CONTENT_REPLACEMENT}]
    \cup [role : {"user", "assistant", "system"}]
    \cup [content : {"Hello"}]

FixArgs == UNION {[1..n -> MessageDicts] : n \in 0..MaxMessages}

\* The messages of a list object, by value.
ListValue(lists, dicts, ref) == [i \in 1..Len(lists[ref]) |-> dicts[lists[ref][i]]]

\* Mutant of Deepcopy: list(messages), a new list of the same dicts.
ShallowCopy(lists, dicts, ref, new) ==
    [lists |-> [r \in DOMAIN lists \cup {new} |->
                   IF r = new THEN lists[ref] ELSE lists[r]],
     dicts |-> dicts]

\* copy.deepcopy(messages), line 43: a new list of new dicts.
Deepcopy(lists, dicts, ref, new) ==
    [lists |-> [r \in DOMAIN lists \cup {new} |->
                   IF r = new
                   THEN [i \in 1..Len(lists[ref]) |-> Len(dicts) + i]
                   ELSE lists[r]],
     dicts |-> dicts \o [i \in 1..Len(lists[ref]) |-> dicts[lists[ref][i]]]]

\* Mutant of ContentIsEmpty: None is left alone.
ContentIsEmptyString(content) == content = ""

\* content == "" or content is None, line 59
ContentIsEmpty(content) == content = "" \/ content = None

\* _fix_empty_content, lines 53-62: the dicts of the list are changed in
\* place.
FixEmptyContent(lists, dicts, ref) ==
    [lists |-> lists,
     dicts |-> [d \in 1..Len(dicts) |->
                   IF /\ \E i \in 1..Len(lists[ref]) : lists[ref][i] = d
                      /\ ContentIsEmpty(MsgGet(dicts[d], "content"))
                   THEN MsgSet(dicts[d], "content", EMPTY_CONTENT_REPLACEMENT)
                   ELSE dicts[d]]]

\* Mutant of AppendedTurn: the turn appended speaks for the assistant.
AppendedAssistantTurn == [role |-> "assistant", content |-> ASSISTANT_ENDING_APPEND]

\* The dict appended at lines 69-72
AppendedTurn == [role |-> "user", content |-> ASSISTANT_ENDING_APPEND]

\* Mutant of EndsWithAssistant: a user turn at the end counts too.
EndsWithSpeaker(lists, dicts, ref) ==
    /\ Len(lists[ref]) > 0
    /\ MsgGet(dicts[lists[ref][Len(lists[ref])]], "role") \in {"user", "assistant"}

\* messages and messages[-1].get("role") == "assistant", line 68
EndsWithAssistant(lists, dicts, ref) ==
    /\ Len(lists[ref]) > 0
    /\ MsgGet(dicts[lists[ref][Len(lists[ref])]], "role") = "assistant"

\* _fix_assistant_ending, lines 64-74: the list is appended to in place.
FixAssistantEnding(lists, dicts, ref) ==
    IF EndsWithAssistant(lists, dicts, ref)
    THEN [lists |-> [lists EXCEPT ![ref] = Append(@, Len(dicts) + 1)],
          dicts |-> Append(dicts, AppendedTurn)]
    ELSE [lists |-> lists, dicts |-> dicts]

\* The name of the list made by the n-th call.
CopyRef(n) == IF n = 1 THEN "copy1" ELSE "copy2"

\* fix_messages, lines 29-51, on the list object ref: the heap after the
\* call and the list returned.
FixMessages(lists, dicts, ref, new) ==
    IF Len(lists[ref]) = 0
    THEN [lists |-> lists, dicts |-> dicts, ret |-> ref]
    ELSE LET copied == Deepcopy(lists, dicts, ref, new)
             filled == FixEmptyContent(copied.lists, copied.dicts, new)
             ended == FixAssistantEnding(filled.lists, filled.dicts, new)
         IN [lists |-> ended.lists, dicts |-> ended.dicts, ret |-> new]

\* The caller passes its list to fix_messages (main.py line 96).
FixCall ==
    /\ lib_pc = "idle"
    /\ fix_calls = 0
    /\ LET out == FixMessages(heap_lists, heap_dicts, "messages", CopyRef(1))
       IN /\ heap_lists' = out.lists
          /\ heap_dicts' = out.dicts
          /\ fix_ret' = out.ret
    /\ fix_arg' = "messages"
    /\ fix_in' = ListValue(heap_lists, heap_dicts, "messages")
    /\ fix_calls' = 1
    /\ lib_pc' = "done"
    /\ UNCHANGED <<parse_arg, parse_ret, extract_arg, extract_ret, exec_vars, inj_vars>>

\* The list returned is passed to fix_messages again.
FixAgain ==
    /\ lib_pc = "done"
    /\ fix_calls = 1
    /\ LET out == FixMessages(heap_lists, heap_dicts, fix_ret, CopyRef(2))
       IN /\ heap_lists' = out.lists
          /\ heap_dicts' = out.dicts
          /\ fix_ret' = out.ret
    /\ fix_arg' = fix_ret
    /\ fix_in' = ListValue(heap_lists, heap_dicts, fix_ret)
    /\ fix_calls' = 2
    /\ UNCHANGED <<lib_pc, parse_arg, parse_ret, extract_arg, extract_ret,
                   exec_vars, inj_vars>>

\* The caller's list after the call, and the list returned.
ArgNow == ListValue(heap_lists, heap_dicts, fix_arg)
Returned == ListValue(heap_lists, heap_dicts, fix_ret)

\* C17: fix_messages never mutates its input: after the call the caller's
\* list has the length it had and every message in it the role and the
\* content it had; what was fixed is in the list returned.
C17_InputNotMutated ==
    fix_calls > 0 =>
       /\ Len(ArgNow) = Len(fix_in)
       /\ \A i \in 1..Len(fix_in) :
             /\ DOMAIN ArgNow[i] = DOMAIN fix_in[i]
             /\ MsgGet(ArgNow[i], "role") = MsgGet(fix_in[i], "role")
             /\ MsgGet(ArgNow[i], "content") = MsgGet(fix_in[i], "content")

\* The input of test_original_not_mutated: it is as it was, and the list
\* returned has the content replaced and a turn more.
C17_Witness ==
    /\ fix_calls = 1
    /\ fix_in = <<[role |-> "user", content |-> ""],
                  [role |-> "assistant", content |-> "Hello"]>>
    /\ ArgNow = fix_in
    /\ Len(Returned) = 3
    /\ Returned[1].content = EMPTY_CONTENT_REPLACEMENT

\* C18: for a non-empty input the list returned does not end with an
\* assistant turn: when the input ends with an assistant turn, exactly one
\* user turn with the text ASSISTANT_ENDING_APPEND is appended; when it ends
\* with a user turn, nothing is appended.
C18_NoAssistantEnding ==
    (fix_calls > 0 /\ Len(fix_in) > 0) =>
       LET last == MsgGet(fix_in[Len(fix_in)], "role")
       IN /\ MsgGet(Returned[Len(Returned)], "role") # "assistant"
          /\ last = "assistant" =>
                /\ Len(Returned) = Len(fix_in) + 1
                /\ Returned[Len(Returned)] =
                      [role |-> "user", content |-> ASSISTANT_ENDING_APPEND]
          /\ last = "user" => Len(Returned) = Len(fix_in)

\* An input that ends with an assistant turn came back one user turn longer.
C18_Witness ==
    /\ fix_calls = 1
    /\ fix_in = <<[role |-> "user", content |-> "Hello"],
                  [role |-> "assistant", content |-> "Hello"]>>
    /\ Len(Returned) = 3
    /\ Returned[3] = [role |-> "user", content |-> ASSISTANT_ENDING_APPEND]

\* C19: in the list returned no message has the content "" or None: each
\* message of the input with such a content, at any position and with any
\* role, has it replaced by EMPTY_CONTENT_REPLACEMENT, the other contents
\* are kept, and the roles and the order of the messages are those of the
\* input.
C19_NoEmptyContent ==
    (fix_calls > 0 /\ Len(fix_in) > 0) =>
       /\ \A i \in 1..Len(Returned) :
             /\ "content" \in DOMAIN Returned[i]
             /\ Returned[i].content \notin {"", None}
       /\ Len(Returned) >= Len(fix_in)
       /\ \A i \in 1..Len(fix_in) :
             /\ MsgGet(Returned[i], "role") = MsgGet(fix_in[i], "role")
             /\ Returned[i].content =
                   IF MsgGet(fix_in[i], "content") \in {"", None}
                   THEN EMPTY_CONTENT_REPLACEMENT
                   ELSE fix_in[i].content

\* A system turn with content None and an assistant turn with content ""
\* were both given the replacement.
C19_Witness ==
    /\ fix_calls = 1
    /\ fix_in = <<[role |-> "system", content |-> None],
                  [role |-> "assistant", content |-> ""]>>
    /\ Returned[1] = [role |-> "system", content |-> EMPTY_CONTENT_REPLACEMENT]
    /\ Returned[2] = [role |-> "assistant", content |-> EMPTY_CONTENT_REPLACEMENT]

\* A list without "" or None content that does not end with an assistant
\* turn.
ValidMessages(msgs) ==
    /\ \A i \in 1..Len(msgs) : MsgGet(msgs[i], "content") \notin {"", None}
    /\ Len(msgs) > 0 => MsgGet(msgs[Len(msgs)], "role") # "assistant"

\* C20: fix_messages is the identity on valid input, the empty list
\* included, and it is idempotent: applied to its own result it returns a
\* list equal to that result.
C20_IdentityAndIdempotent ==
    /\ (fix_calls > 0 /\ ValidMessages(fix_in)) => Returned = fix_in
    /\ fix_calls = 2 => Returned = fix_in

\* An input that needed both fixes, fixed a second time: the second result
\* equals the first.
C20_Witness ==
    /\ fix_calls = 2
    /\ Len(fix_in) = 3
    /\ fix_in[1] = [role |-> "user", content |-> EMPTY_CONTENT_REPLACEMENT]
    /\ fix_in[3] = [role |-> "user", content |-> ASSISTANT_ENDING_APPEND]
    /\ MsgGet(ListValue(heap_lists, heap_dicts, "messages")[1], "content") = ""
    /\ Returned = fix_in
    /\ fix_ret # fix_arg

(***************************************************************************)
(* C25: the cache after a lookup that fetched.                             *)
(***************************************************************************)
\* _get_or_fetch_context of task t has just returned after a fetch: the
\* task has not yet handed its result to its caller.
LookupFetched(t) == task[t].pc = "done" /\ task[t].how = "fetched"

\* The number of get_ticket calls the task's lookup issued.
TicketFetches(tk) ==
    Cardinality({k \in 1..Len(tk.issued) : tk.issued[k].op = "get_ticket"})

\* What C25 says of the cache when the lookup of task t has returned.
StoredAndSwept(t) ==
    /\ TicketFetches(task[t]) = 1
    /\ task[t].ticket_id \in DOMAIN cache
    /\ cache[task[t].ticket_id] =
          [context |-> task[t].context, cached_at |-> task[t].now]
    /\ \A i \in DOMAIN cache : task[t].now - cache[i].cached_at <= cache_ttl

\* C25: on a miss or an expired entry the lookup fetches once, stores
\* (bundle, timestamp) under the identifier and sweeps; when it returns, for
\* every cache_ttl >= 0, the cache maps the identifier to the returned
\* bundle and holds no entry whose age at that call exceeds cache_ttl.
C25_StoredAndSwept == \A t \in Tasks : LookupFetched(t) => StoredAndSwept(t)

\* The same for a positive cache_ttl.
StoredAndSweptPositiveTtl ==
    cache_ttl > 0 => \A t \in Tasks : LookupFetched(t) => StoredAndSwept(t)

\* With cache_ttl = 0 a lookup fetched ticket 1 and returned its bundle, and
\* the cache has no entry for ticket 1.
C25_Witness ==
    /\ cache_ttl = 0
    /\ LookupFetched("t1")
    /\ task["t1"].ticket_id = 1
    /\ PyType(task["t1"].context.ticket) = "dict"
    /\ task["t1"].end = "return"
    /\ 1 \notin DOMAIN cache

(***************************************************************************)
(* C26: the hit test and the sweep test.                                   *)
(***************************************************************************)
\* The lookup of task t has just been served from the cache.
LookupHit(t) == task[t].pc = "done" /\ task[t].how = "hit"

Times == 0..MaxTime

\* C26: a lookup returns a stored bundle only when its age is below
\* cache_ttl, and the sweep at a time now removes exactly the entries that a
\* lookup at the same now would not serve, the entries of age cache_ttl
\* included.
C26_ExpiredInvisible ==
    /\ \A t \in Tasks :
          LookupHit(t) =>
             /\ task[t].ticket_id \in DOMAIN cache
             /\ task[t].context = cache[task[t].ticket_id].context
             /\ task[t].now - cache[task[t].ticket_id].cached_at < cache_ttl
    /\ \A now \in Times :
          /\ DOMAIN CleanupCache(cache, now) =
                {i \in DOMAIN cache : CacheHit(i, now)}
          /\ \A i \in DOMAIN cache :
                now - cache[i].cached_at = cache_ttl =>
                   /\ ~CacheHit(i, now)
                   /\ i \notin DOMAIN CleanupCache(cache, now)

\* The entry of ticket 1, stored at time 0 with a ttl of 2, has reached the
\* age 2 unswept: the lookup of ticket 1 at time 2 does not serve it and
\* fetches.
C26_Witness ==
    /\ cache_ttl = 2
    /\ 1 \in DOMAIN cache
    /\ cache[1].cached_at = 0
    /\ task["t1"].pc = "fetching"
    /\ task["t1"].ticket_id = 1
    /\ task["t1"].now = 2
    /\ hist.hits = 1

(***************************************************************************)
(* C27: concurrent lookups of one identifier.                              *)
(***************************************************************************)
\* The cache entry of ticket id is written in this step: it is new or not
\* the entry that was there.
EntryWritten(id) ==
    /\ id \in DOMAIN cache'
    /\ id \in DOMAIN cache => cache'[id] # cache[id]

\* The lookup of task t for ticket id returns from its fetch in this step.
FetchCompletes(t, id) ==
    /\ task[t].pc = "fetching"
    /\ task'[t].pc = "done"
    /\ task[t].ticket_id = id

C27_Step ==
    \A id \in TicketIds :
       EntryWritten(id) =>
          \E t \in Tasks :
             /\ FetchCompletes(t, id)
             /\ cache'[id] = [context |-> task'[t].context,
                              cached_at |-> task[t].now]

\* C27: under every interleaving of concurrent lookups of one identifier,
\* each entry of the cache is written whole by one lookup: it is the bundle
\* that lookup returns with the timestamp that lookup took when it started,
\* and it replaces the entry of the identifier (last write wins).
C27_LastWriteWins == [][C27_Step]_vars

\* Two lookups of ticket 1 overlapped: the one started at time 1 lost a
\* secondary fetch and returned first, the one started at time 0 returned
\* last, and the cache holds the latter's bundle with the timestamp 0.
C27_Witness ==
    /\ hist.overlap
    /\ hist.calls = 2
    /\ hist.failures = 1
    /\ clock = 1
    /\ task["t2"].pc = "idle"
    /\ LookupFetched("t1")
    /\ task["t1"].ticket_id = 1
    /\ task["t1"].now = 0
    /\ task["t1"].context.errors = <<>>
    /\ 1 \in DOMAIN cache
    /\ cache[1] = [context |-> task["t1"].context, cached_at |-> 0]

(***************************************************************************)
(* C28: a failed history fetch.                                            *)
(***************************************************************************)
\* fetch_full_context of task t is over; the fetch of the ticket answered
\* with a record and the fetch of its history raised.
HistoryAloneFailed(t) ==
    /\ task[t].pc = "done"
    /\ {"ticket", "actions"} \subseteq DOMAIN task[t].outcomes
    /\ task[t].outcomes["ticket"].kind = "ok"
    /\ PyType(task[t].outcomes["ticket"].value) = "dict"
    /\ task[t].outcomes["actions"].kind = "raise"

\* The secondary fetches that the tickets of the store give rise to: ticket
\* 1 links user 5, client 6 and asset 7, the other tickets link nothing.
DerivedFetches(ticket_id) ==
    IF ticket_id = 1
    THEN <<[op |-> "get_user", id |-> 5], [op |-> "get_client", id |-> 6],
           [op |-> "get_asset", id |-> 7]>>
    ELSE IF ticket_id = 12
    THEN <<[op |-> "get_user", id |-> 5], [op |-> "get_client", id |-> 6],
           [op |-> "get_asset", id |-> 8], [op |-> "get_asset", id |-> 7]>>
    ELSE <<>>

\* The error strings of a bundle that speak of the history.
HistoryErrors(context) ==
    {k \in 1..Len(context.errors) :
        context.errors[k] = "Failed to fetch ticket history: 503 Service Unavailable"}

\* C28: when the fetch of the ticket succeeds and the fetch of its history
\* fails, fetch_full_context returns a bundle with exactly one error string
\* for the history, an empty history list and the ticket, and it has issued
\* every secondary fetch derived from the ticket.
C28_HistoryNonTerminal ==
    \A t \in Tasks :
       HistoryAloneFailed(t) =>
          /\ task[t].how = "fetched"
          /\ task[t].context.ticket = task[t].outcomes["ticket"].value
          /\ task[t].context.actions = <<>>
          /\ HistoryErrors(task[t].context) = {1}
          /\ task[t].issued =
                <<[op |-> "get_ticket", id |-> task[t].ticket_id],
                  [op |-> "get_ticket_actions", id |-> task[t].ticket_id]>>
                \o DerivedFetches(task[t].ticket_id)

\* The history of ticket 1 failed: the bundle holds the ticket, its user,
\* client and asset, no history, and the one error.
C28_Witness ==
    /\ HistoryAloneFailed("t1")
    /\ task["t1"].ticket_id = 1
    /\ Len(task["t1"].issued) = 5
    /\ task["t1"].context.user = PyDict([id |-> PyInt(5)])
    /\ task["t1"].context.client = PyDict([id |-> PyInt(6)])
    /\ task["t1"].context.assets = <<PyDict([id |-> PyInt(7)])>>
    /\ task["t1"].context.errors =
          <<"Failed to fetch ticket history: 503 Service Unavailable">>
    /\ task["t1"].end = "return"

(***************************************************************************)
(* C29: the order of the fetches of one fetch_full_context.                *)
(***************************************************************************)
\* The record-store calls of a lookup after the two of step 1.
SecondaryIssued(tk) == SubSeq(tk.issued, 3, Len(tk.issued))

\* The labels of the fetches that the tickets of the store give rise to.
DerivedLabels(ticket_id) ==
    IF ticket_id = 1 THEN {"user", "client", "asset_7"}
    ELSE IF ticket_id = 12 THEN {"user", "client", "asset_8", "asset_7"}
    ELSE {}

\* The calls of a lookup that have completed, with a value or an exception.
CompletedFetches(tk) == DOMAIN tk.outcomes

Step1Issued(tk) ==
    SubSeq(tk.issued, 1, 2) =
       <<[op |-> "get_ticket", id |-> tk.ticket_id],
         [op |-> "get_ticket_actions", id |-> tk.ticket_id]>>

\* C29: no secondary fetch is started before the fetches of the ticket and
\* of its history have both completed; then one fetch is issued for the
\* user, one for the client and one for each distinct asset id, all of them
\* before any of them completes; a failed fetch is not issued again; and
\* fetch_full_context returns only when every fetch it issued has completed.
C29_FetchOrder ==
    \A t \in Tasks :
       LET tk == task[t]
       IN /\ \A k \in 1..Len(tk.issued) :
                tk.issued[k].op \in SecondaryOps =>
                   {"ticket", "actions"} \subseteq CompletedFetches(tk)
          /\ tk.pc = "fetching" =>
                /\ Step1Issued(tk)
                /\ Len(tk.issued) = 2
                /\ tk.pending # {}
                /\ tk.pending \cup CompletedFetches(tk) = {"ticket", "actions"}
                /\ tk.pending \cap CompletedFetches(tk) = {}
          /\ tk.pc = "step3" =>
                /\ Step1Issued(tk)
                /\ SecondaryIssued(tk) = DerivedFetches(tk.ticket_id)
                /\ tk.pending # {}
                /\ tk.pending \cup (CompletedFetches(tk) \ {"ticket", "actions"})
                      = DerivedLabels(tk.ticket_id)
                /\ tk.pending \cap CompletedFetches(tk) = {}
          /\ (tk.pc = "done" /\ tk.how \in {"fetched", "exception"}) =>
                /\ Step1Issued(tk)
                /\ {"ticket", "actions"} \subseteq CompletedFetches(tk)
                /\ \/ /\ SecondaryIssued(tk) = <<>>
                      /\ CompletedFetches(tk) = {"ticket", "actions"}
                      /\ \/ tk.outcomes["ticket"].kind = "raise"
                         \/ PyType(tk.outcomes["ticket"].value) # "dict"
                         \/ DerivedLabels(tk.ticket_id) = {}
                   \/ /\ tk.outcomes["ticket"].kind = "ok"
                      /\ SecondaryIssued(tk) = DerivedFetches(tk.ticket_id)
                      /\ SecondaryIssued(tk) # <<>>
                      /\ CompletedFetches(tk) =
                            {"ticket", "actions"} \cup DerivedLabels(tk.ticket_id)

\* The three secondary fetches of ticket 1 are issued; the fetch of the
\* user has failed and is not issued again, the two others are pending.
C29_Witness ==
    /\ task["t1"].pc = "step3"
    /\ task["t1"].ticket_id = 1
    /\ Len(task["t1"].issued) = 5
    /\ task["t1"].pending = {"client", "asset_7"}
    /\ task["t1"].outcomes["user"].kind = "raise"
    /\ task["t1"].outcomes["actions"].kind = "ok"

\* fetch_full_context of ticket 1 has returned after the fetch of the asset
\* failed and the two others succeeded, the asset last.
FetchedAllJoined ==
    /\ LookupFetched("t1")
    /\ task["t1"].ticket_id = 1
    /\ Len(task["t1"].issued) = 5
    /\ task["t1"].outcomes["asset_7"].kind = "raise"
    /\ task["t1"].context.user = PyDict([id |-> PyInt(5)])
    /\ Len(task["t1"].context.errors) = 1

(***************************************************************************)
(* C30: the upstream calls of the tool loop as suspension points.  A task   *)
(* of the event loop runs from one await to the next without any other     *)
(* task running: the record-store call of a tool is awaited (executor.py   *)
(* line 106), so that the run is left at "await" between the call and its  *)
(* answer; self.client.messages.create of line 85 is called without await  *)
(* on the synchronous client of line 41, so that the request and its       *)
(* answer fall into one step of the run.                                   *)
(***************************************************************************)
\* The run has sent a model request that is not answered yet.
WaitingForModel == ModelCalls < tool_round

\* A record-store call of a tool is started in this step.
ToolCallStarted == Len(store_log') = Len(store_log) + 1

\* The other task can take a step: start a lookup, have a pending fetch
\* answered, or hand its result to its caller.
OtherTaskCanStep ==
    \/ task["t1"].pc = "idle" /\ hist.calls < MaxCalls
    \/ task["t1"].pc \in {"fetching", "step3"} /\ task["t1"].pending # {}
    \/ task["t1"].pc = "done"

C30_Step ==
    /\ ModelCalled => (WaitingForModel' /\ responses' = responses)
    /\ ToolCallStarted => pc' = "await"

\* C30: every upstream call of the tool loop is a suspension point: the step
\* of the run that sends a model request or starts a record-store call
\* leaves the run waiting for the answer, so that another task can take
\* steps before the answer arrives.
C30_UpstreamCallsSuspend == [][C30_Step]_vars

\* The same for the record-store calls of the tools alone.
ToolCallStep ==
    /\ ToolCallStarted => (pc' = "await" /\ exec_log' = exec_log)
    /\ (pc = "await" /\ task' # task) => (pc' = "await" /\ awaiting' = awaiting)

ToolCallsSuspend == [][ToolCallStep]_vars

\* While the run waits for a record-store call, the other task is never
\* held back by the run.
OtherTaskRunsDuringToolCall ==
    pc = "await" => (OtherTaskCanStep \/ hist.calls = MaxCalls)

\* The first model call of a run was sent and answered while the other
\* task, in the middle of its fetch, stayed where it was.
C30_Witness ==
    /\ tool_round = 1
    /\ Len(responses) = 1
    /\ ~WaitingForModel
    /\ pc = "await"
    /\ task["t1"].pc = "step3"
    /\ task["t1"].pending = {"client"}

(***************************************************************************)
(* C31: the request handler (main.py, chat_completions) and the injector.  *)
(***************************************************************************)
\* fix_messages on the value of a list: the messages of the list returned.
FixedValue(msgs) ==
    LET lists == [r \in {"messages"} |-> [i \in 1..Len(msgs) |-> i]]
        out == FixMessages(lists, msgs, "messages", CopyRef(1))
    IN ListValue(out.lists, out.dicts, out.ret)

\* The bodies of the requests that are enumerated: the system turn names
\* ticket 1; it names no ticket; the conversation ends with the assistant.
TicketConversation ==
    <<[role |-> "system", content |-> "Ticket #1"],
      [role |-> "user", content |-> "hello"]>>

AssistantEnding ==
    <<[role |-> "system", content |-> "Ticket #1"],
      [role |-> "user", content |-> "hello"],
      [role |-> "assistant", content |-> ""]>>

RequestBodies == {TicketConversation, OneSystemTurn, AssistantEnding}

\* chat_completions, main.py lines 92-105: the messages of the body are
\* fixed and handed to run with the tool declarations; no system argument
\* is passed and the prompt goes to no other component on the way.
ChatCompletions(body) == Run(FixedValue(body), HaloTools, None)

\* A system prompt as the text the parser of the injector reads.
PromptText(str) ==
    IF str = None \/ str = "absent" THEN NoText
    ELSE IF str = "Ticket #1" THEN Text(<<"Ticket", " ", "#", "1">>)
    ELSE Text(<<str>>)

\* The raw prompt of the request served.
RawPrompt == ExtractSystemPrompt(in_messages)

\* The inject_context calls that have returned a value for the raw prompt.
InjectedFor(prompt) ==
    {t \in Tasks : /\ task[t].pc = "done"
                   /\ task[t].prompt = PromptText(prompt)}

\* C31: for every inbound request the prompt is passed through
\* inject_context before the first model call of the loop, and the system
\* instructions sent to the model in every round are what inject_context
\* returned for the raw prompt of the request.
C31_InjectedBeforeModel ==
    ModelCalls >= 1 =>
       \E t \in InjectedFor(RawPrompt) :
          PromptText(request.system) = task[t].ret

\* What is sent instead: the raw prompt itself, in every round, while the
\* injector is never called and the record store sees no call of a lookup.
RawPromptSent ==
    ModelCalls >= 1 =>
       /\ request.system = (IF Truthy(RawPrompt) THEN RawPrompt ELSE "absent")
       /\ hist.calls = 0
       /\ \A t \in Tasks : task[t] = IdleTask

\* Reached: the model is called in a second round with a system prompt
\* that names ticket 1 and is not the prompt with an appendix; the
\* injector has not been called.
C31_Witness ==
    /\ ModelCalls >= 2
    /\ IdTruthy(Parse(PromptText(RawPrompt)))
    /\ Parse(PromptText(RawPrompt)).id = 1
    /\ request.system = RawPrompt
    /\ InjectedFor(RawPrompt) = {}
    /\ hist.calls = 0

(***************************************************************************)
(* C32: the identifiers of the parser and of the injector.                 *)
(***************************************************************************)
\* C32: every identifier returned by parse is a positive integer: parse
\* never returns 0 or a negative number.
C32_PositiveIds ==
    lib_pc = "done" /\ parse_ret.found => parse_ret.id > 0

\* Reached: parse("TICKET # 0") returns 0, the number captured by the
\* first rule.
C32_Witness ==
    /\ lib_pc = "done"
    /\ parse_arg = Text(<<"TICKET", " ", "#", " ", "0">>)
    /\ Matches(TICKET_ID_PATTERNS[1], parse_arg.text)
    /\ parse_ret = [found |-> TRUE, id |-> 0]

\* The other half, on the injector: "if not ticket_id" (injector.py line
\* 71) takes 0 for no identifier, so that every lookup started and every
\* cache entry written is for a positive identifier, and the prompt
\* "Ticket #0" is returned as it is.
LookupIdsPositive ==
    /\ \A i \in DOMAIN cache : i > 0
    /\ \A t \in Tasks :
          /\ task[t].pc \notin {"idle", "done"} => task[t].ticket_id > 0
          /\ \A k \in 1..Len(task[t].issued) :
                task[t].issued[k].op \in {"get_ticket", "get_ticket_actions"}
                   => task[t].issued[k].id > 0
          /\ task[t].pc = "done" /\ ParsedPrompts[task[t].prompt].id = 0
                => task[t].ret = task[t].prompt /\ task[t].how = "passed"

ZeroPromptPassed ==
    \E t \in Tasks :
       /\ task[t].pc = "done"
       /\ enabled
       /\ task[t].prompt = Text(<<"Ticket", " ", "#", "0">>)
       /\ task[t].ret = task[t].prompt

(***************************************************************************)
(* C33: the extraction of the related ids from a primary record of any     *)
(* shape.                                                                  *)
(***************************************************************************)
\* The primary records handed to step 2: values that are not objects, and
\* objects whose fields hold bare ids, embedded objects with and without
\* an id, null, strings and lists.
UserIdValues == {Absent, PyInt(5), PyInt(0), PyNone, PyOther("5")}

UserValues ==
    {Absent, PyDict([id |-> PyInt(6)]), PyDict([id |-> PyInt(0)]),
     PyDict([name |-> PyOther("x")]), PyList(<<PyInt(6)>>)}

AssetIdValues ==
    {Absent, PyInt(7), PyDict([id |-> PyInt(7)]), PyList(<<PyInt(7)>>)}

RecordWith(a, b, c, d, e) ==
    LET all == [user_id |-> a, user |-> b, reportedby |-> c, client |-> d,
                asset_id |-> e]
    IN PyDict([k \in {f \in DOMAIN all : all[f] # Absent} |-> all[k]])

ShapeArgs ==
    {PyList(<<>>), PyNone, PyOther("x")}
    \cup {RecordWith(a, b, c, d, e) :
             a \in UserIdValues, b \in UserValues, c \in {Absent, PyInt(9)},
             d \in {Absent, PyDict([id |-> PyInt(6)]), PyOther("6")},
             e \in AssetIdValues}

\* The calls of lines 80-82.
ExtractIdsCall ==
    /\ lib_pc = "idle"
    /\ lib_pc' = "done"
    /\ extract_ret' = ExtractIds(extract_arg)
    /\ UNCHANGED <<extract_arg, parse_arg, parse_ret, fix_vars, exec_vars, inj_vars>>

\* A candidate value that stands for an id: a raw integer, or an object
\* carrying an id field; and the id it stands for.
CarriesId(v) ==
    PyType(v) = "int" \/ (PyType(v) = "dict" /\ "id" \in DOMAIN PyVal(v))

IdCarried(v) == IF PyType(v) = "int" THEN v ELSE PyVal(v)["id"]

\* The id of the first candidate field, in order, that stands for an id.
RECURSIVE FirstCandidate(_, _, _)
FirstCandidate(ticket, fields, k) ==
    IF k > Len(fields) THEN PyNone
    ELSE IF fields[k] \in DOMAIN PyVal(ticket)
            /\ CarriesId(PyVal(ticket)[fields[k]])
    THEN IdCarried(PyVal(ticket)[fields[k]])
    ELSE FirstCandidate(ticket, fields, k + 1)

UserFields == <<"user_id", "userid", "user", "reportedby">>
ClientFields == <<"client_id", "clientid", "client", "organisation_id">>

\* C33: the owner id and the organization id extracted are the id of the
\* first candidate field, in the fixed order, whose value is a raw integer
\* or an object carrying an id field, a candidate of any other shape being
\* skipped; and for every shape of primary record the user, client and
\* asset extraction steps raise no error.
C33_TolerantExtraction ==
    lib_pc = "done" =>
       /\ extract_ret.kind = "return"
       /\ extract_ret.user_id = FirstCandidate(extract_arg, UserFields, 1)
       /\ extract_ret.client_id = FirstCandidate(extract_arg, ClientFields, 1)

\* Reached: for the ticket {"asset_id": {"id": 7}} the extraction of the
\* asset ids raises TypeError, the object under asset_id being taken for an
\* id and tested for membership in a set.
C33_Witness ==
    /\ lib_pc = "done"
    /\ extract_arg = PyDict([asset_id |-> PyDict([id |-> PyInt(7)])])
    /\ extract_ret.kind = "raise"
    /\ extract_ret.exc = "TypeError"

\* What holds: on an object, the owner id and the organization id are
\* those of the first candidate that is a raw integer or an object with a
\* true id (an object whose id is 0 is skipped like one without id), and
\* none of the two extractions raises; the extraction of the asset ids
\* raises exactly when a value taken for an id is an object or a list.
TrueId(v) ==
    PyType(v) = "int" \/ (PyType(v) = "dict" /\ PyTruthy(PyGet(v, "id")))

RECURSIVE FirstTrueCandidate(_, _, _)
FirstTrueCandidate(ticket, fields, k) ==
    IF k > Len(fields) THEN PyNone
    ELSE IF fields[k] \in DOMAIN PyVal(ticket)
            /\ TrueId(PyVal(ticket)[fields[k]])
    THEN IdCarried(PyVal(ticket)[fields[k]])
    ELSE FirstTrueCandidate(ticket, fields, k + 1)

ExtractionOnObjects ==
    (lib_pc = "done" /\ PyType(extract_arg) = "dict") =>
       /\ extract_ret.user_id = FirstTrueCandidate(extract_arg, UserFields, 1)
       /\ extract_ret.client_id = FirstTrueCandidate(extract_arg, ClientFields, 1)
       /\ extract_ret.kind = "raise"
             <=> /\ "asset_id" \in DOMAIN PyVal(extract_arg)
                 /\ Unhashable(PyVal(extract_arg)["asset_id"])

RaisesOnNonObject ==
    (lib_pc = "done" /\ PyType(extract_arg) # "dict") =>
       extract_ret.kind = "raise" /\ extract_ret.exc = "AttributeError"

(***************************************************************************)
(* C34: what reaches the caller of run when an upstream call fails.        *)
(***************************************************************************)
\* C34: no failure raises to the caller of run: whichever of the model
\* backend, a tool or a record-store lookup fails, run ends by returning a
\* value.
C34_RunNeverRaises == pc = "done" => ret.kind = "return"

\* Reached: the backend answered the first round with tool calls, a tool
\* failed and its error went back as a tool result, and the model call of
\* the second round raised: run ended with that exception.
C34_Witness ==
    /\ pc = "done"
    /\ tool_round = 2
    /\ model_failed
    /\ \E i \in 1..Len(exec_log) : IsErrorPayload(exec_log[i].result)
    /\ ret = [kind |-> "raise", exc |-> "APIError"]

\* The failures of tools and of the record store do end in a value: run
\* raises only when a model call raised.
OnlyModelFailureRaises == (pc = "done" /\ ~model_failed) => ret.kind = "return"

(***************************************************************************)
(* C35: the user turns run appends.                                        *)
(***************************************************************************)
\* C35: every user turn appended by run carries at least one tool_result:
\* a response with stop_reason tool_use and no tool_use block causes no
\* user turn with an empty result list to be appended.
C35_NoEmptyUserTurn ==
    \A i \in 1..CompletedRounds : Len(UserTurnOf(i).content) >= 1

\* Reached: the first response had stop_reason tool_use and a text block
\* only; the assistant turn and a user turn with no result were appended,
\* and the request of the second round ended with that user turn.
C35_Witness ==
    /\ tool_round = 2
    /\ ModelCalls = 2
    /\ WantsTools(responses[1])
    /\ Len(ToolCallsOf(responses[1])) = 0
    /\ Len(request.messages) = Len(InitialConversation) + 2
    /\ request.messages[Len(request.messages)] = [role |-> "user", content |-> <<>>]

\* The user turn of a round is empty exactly when the response of that
\* round carried no tool_use block.
EmptyTurnWithoutBlocks ==
    \A i \in 1..CompletedRounds :
       Len(UserTurnOf(i).content) = Len(ToolCallsOf(responses[i]))

(***************************************************************************)
(* C36: the delivery of tool results to the model.                         *)
(***************************************************************************)
\* The result of an executed tool call stands, under the id of the call, in
\* the user turn of its round in the messages of the last model request.
Delivered(e) ==
    LET j == Len(InitialConversation) + 2 * e.round
    IN /\ ModelCalls > e.round
       /\ j <= Len(request.messages)
       /\ request.messages[j].role = "user"
       /\ \E k \in 1..Len(request.messages[j].content) :
             /\ request.messages[j].content[k].tool_use_id = e.id
             /\ request.messages[j].content[k].content = ToolResultContent(e.result)

\* C36 as stated: every tool execution has its result delivered to the
\* model: when run has ended, the model was called again after every round
\* in which a tool was executed, with the results of that round in the
\* request.
C36_Original ==
    pc = "done" => \A n \in 1..Len(exec_log) : Delivered(exec_log[n])

\* C36 as amended: the result of every tool executed in rounds 1 to 9 is
\* delivered in the model request of the next round, which is made before
\* run ends; the tools of round 10 are executed and their results appended
\* to the conversation state, but the model is not called again: run
\* returns the response of round 10.
C36_DeliveredBelowCap ==
    \A n \in 1..Len(exec_log) :
       LET e == exec_log[n]
       IN /\ ModelCalls > e.round => Delivered(e)
          /\ pc = "done" =>
                \/ Delivered(e)
                \/ /\ e.round = MAX_TOOL_ROUNDS
                   /\ ModelCalls = MAX_TOOL_ROUNDS
                   /\ \E k \in 1..Len(UserTurnOf(e.round).content) :
                         UserTurnOf(e.round).content[k].tool_use_id = e.id
                   /\ ret.kind = "return"
                   /\ ret.value.id = <<"msg", MAX_TOOL_ROUNDS>>

\* Reached: run has ended after ten rounds of tool calls; the two results
\* of round 1 were delivered with the second request, the result of round
\* 10 was appended and is in no request.
C36_Witness ==
    /\ pc = "done"
    /\ ModelCalls = MAX_TOOL_ROUNDS
    /\ Cardinality({n \in 1..Len(exec_log) : exec_log[n].round = 1}) = 2
    /\ \A n \in 1..Len(exec_log) :
          exec_log[n].round < MAX_TOOL_ROUNDS => Delivered(exec_log[n])
    /\ \E n \in 1..Len(exec_log) :
          /\ exec_log[n].round = MAX_TOOL_ROUNDS
          /\ ~Delivered(exec_log[n])
          /\ Len(request.messages) < Len(current_messages)

(***************************************************************************)
(* C37: the timestamps of the entries written by overlapping lookups.      *)
(***************************************************************************)
\* C37 as stated: the fetch timestamp stored for an identifier never
\* decreases: a call that started earlier never overwrites the entry
\* written by a call that started later.
C37_Original ==
    [][\A id \in TicketIds : ~Lowers(cache, cache', id)]_vars

\* The lookup of another task for ticket id that began while the lookup of
\* t was in flight has returned: t began before it and ends after it.
Overtaken(t, id) ==
    /\ hist.overlap
    /\ id \in DOMAIN cache
    /\ task[t].now < cache[id].cached_at

C37_Step ==
    \A id \in TicketIds :
       EntryWritten(id) =>
          \E t \in Tasks :
             /\ FetchCompletes(t, id)
             /\ cache'[id].cached_at = task[t].now
             /\ task[t].now <= clock
             /\ Lowers(cache, cache', id) => Overtaken(t, id)

\* C37 as amended: every write stamps the entry with the time its lookup
\* took when it started, and the lookup that completes last writes last.
\* The timestamp stored for an identifier decreases exactly when a lookup
\* completes after a lookup of the same identifier that started later and
\* overlapped it; lookups that do not overlap never lower it.
C37_LowerOnlyWhenOvertaken ==
    [][C37_Step /\ (~hist.overlap' => ~hist.lowered')]_vars

\* Reached: two lookups of ticket 1 overlapped, both fetched, and the one
\* that started at time 0 wrote last: the entry stamped 1 was replaced by
\* one stamped 0.
C37_Witness ==
    /\ hist.lowered
    /\ hist.overlap
    /\ hist.hits = 0
    /\ hist.failures = 0
    /\ clock = 1
    /\ task["t1"].pc = "done"
    /\ task["t1"].ticket_id = 1
    /\ task["t1"].now = 0
    /\ 1 \in DOMAIN cache
    /\ cache[1].cached_at = 0

(***************************************************************************)
(* C38: clear_cache and the lookups in flight.                             *)
(***************************************************************************)
\* The bundle of the lookup of task t, which was in flight when the cache
\* was cleared, is in the cache.
StaleEntry(t) ==
    /\ task[t].cleared
    /\ task[t].pc = "done"
    /\ task[t].how = "fetched"
    /\ task[t].ticket_id \in DOMAIN cache
    /\ cache[task[t].ticket_id].cached_at = task[t].now

\* C38 as stated: after clear_cache has returned, the cache never holds a
\* bundle whose fetch was started before the clear.
C38_Original == \A t \in Tasks : ~StaleEntry(t)

\* C38 as amended: clear_cache removes the entries present when it is
\* called, so that every entry found in the cache afterwards was written by
\* a lookup that completed after the clear; it does not reach the lookups
\* in flight: a lookup whose fetch was started before the clear writes its
\* bundle, with its start time, when the fetch completes (the entry stays
\* when cache_ttl is positive).
C38_ClearedThenRefilled ==
    /\ \A id \in DOMAIN cache :
          /\ hist.last_fetch[id] >= 0
          /\ cache[id].cached_at = hist.last_fetch[id]
    /\ \A t \in Tasks :
          (task[t].cleared /\ task[t].pc = "done" /\ task[t].how = "fetched"
             /\ cache_ttl > 0)
          => /\ StaleEntry(t)
             /\ cache[task[t].ticket_id].context = task[t].context
             /\ DOMAIN cache = {task[t].ticket_id}

\* Reached: the lookup of ticket 1 started at time 0, the cache, which held
\* ticket 2, was cleared at time 1, and the fetch then completed: the cache
\* holds the bundle of ticket 1 stamped 0.
C38_Witness ==
    /\ StaleEntry("t1")
    /\ clock = 1
    /\ task["t1"].ticket_id = 1
    /\ task["t1"].now = 0
    /\ PyType(task["t1"].context.ticket) = "dict"
    /\ DOMAIN cache = {1}
    /\ cache[1].context = task["t1"].context

(***************************************************************************)
(* C39: what becomes of each secondary fetch in the bundle returned.       *)
(***************************************************************************)
\* The value the k-th secondary fetch returned is stored in the bundle; an
\* error string for that fetch is among the errors of the bundle.
ResultStored(tk, k) ==
    /\ tk.outcomes[tk.tasks[k].label].kind = "ok"
    /\ InBundle(tk.context, tk.tasks[k].label, tk.outcomes[tk.tasks[k].label].value)

ErrorRecorded(tk, k) ==
    \E j \in 1..Len(tk.context.errors) :
       tk.context.errors[j] = SecondaryError(tk, k)

\* C39: every secondary fetch issued is accounted for in the bundle
\* returned: for each issued user, client or asset fetch exactly one of the
\* two holds, its result is stored in the bundle or an error string for it
\* is in errors, whatever value the record store returned.
C39_EveryFetchAccounted ==
    \A t \in Tasks :
       SecondaryFetched(t) =>
          \A k \in 1..Len(task[t].tasks) :
             ResultStored(task[t], k) # ErrorRecorded(task[t], k)

\* Reached: the record store answered the fetch of user 5 with an empty
\* object; the bundle returned has no user and no error, while the client
\* and the asset are stored.
C39_Witness ==
    /\ SecondaryFetched("t1")
    /\ task["t1"].tasks[1].label = "user"
    /\ task["t1"].outcomes["user"] = [kind |-> "ok", msg |-> "", value |-> PyDict(EmptyDict)]
    /\ task["t1"].context.user = PyNone
    /\ task["t1"].context.errors = <<>>
    /\ task["t1"].context.client = PyDict([id |-> PyInt(6)])
    /\ Len(task["t1"].context.assets) = 1

\* What holds: a fetch that raised has its error string and no result, a
\* fetch that returned a true value has its result and no error string,
\* and a fetch that returned a false value (null, an empty object or list,
\* 0) has neither.
FalseResultsDropped ==
    \A t \in Tasks :
       SecondaryFetched(t) =>
          \A k \in 1..Len(task[t].tasks) :
             LET o == task[t].outcomes[task[t].tasks[k].label]
             IN /\ ErrorRecorded(task[t], k) <=> o.kind = "raise"
                /\ ResultStored(task[t], k) <=> (o.kind = "ok" /\ PyTruthy(o.value))

(***************************************************************************)
(* C40: the bundle and the order in which the fetches complete.            *)
(***************************************************************************)
\* The labels of the secondary fetches of a ticket in the fixed order:
\* user, client, then the assets in the order of the deduplicated ids.
FixedOrder(ticket) ==
    (IF PyTruthy(ExtractUserId(ticket)) THEN <<"user">> ELSE <<>>)
    \o (IF PyTruthy(ExtractClientId(ticket)) THEN <<"client">> ELSE <<>>)
    \o [k \in 1..Len(ExtractAssetIds(ticket)) |->
           "asset_" \o ToString(PyVal(ExtractAssetIds(ticket)[k]))]

\* The assets fetched, and the errors of the fetches that raised, of the
\* labels from the k-th on.
RECURSIVE AssetsFrom(_, _, _)
AssetsFrom(labels, outcomes, k) ==
    IF k > Len(labels) THEN <<>>
    ELSE (IF /\ labels[k] \notin {"user", "client"}
             /\ outcomes[labels[k]].kind = "ok"
             /\ PyTruthy(outcomes[labels[k]].value)
          THEN <<outcomes[labels[k]].value>> ELSE <<>>)
         \o AssetsFrom(labels, outcomes, k + 1)

RECURSIVE ErrorsFrom(_, _, _)
ErrorsFrom(tk, labels, k) ==
    IF k > Len(labels) THEN <<>>
    ELSE (IF tk.outcomes[labels[k]].kind = "raise"
          THEN <<SecondaryError(tk, CHOOSE j \in 1..Len(tk.tasks) :
                                       tk.tasks[j].label = labels[k])>>
          ELSE <<>>)
         \o ErrorsFrom(tk, labels, k + 1)

\* C40: whatever the order in which the concurrent fetches completed, the
\* assets of the bundle are the assets fetched in the order of the
\* deduplicated asset ids of the ticket, the failed ones left out, and the
\* errors are the error of the history, then of the user, of the client and
\* of the assets in the order of the id list.
C40_OrderIndependent ==
    \A t \in Tasks :
       SecondaryFetched(t) =>
          LET tk == task[t]
              labels == FixedOrder(tk.context.ticket)
          IN /\ tk.context.assets = AssetsFrom(labels, tk.outcomes, 1)
             /\ tk.context.errors =
                   (IF tk.outcomes["actions"].kind = "raise"
                    THEN <<HistoryError>> ELSE <<>>)
                   \o ErrorsFrom(tk, labels, 1)

\* Reached: the fetches of ticket 12 completed out of the order in which
\* they were issued, and the fetches of the client and of asset 8 raised:
\* the bundle holds asset 7 and the two errors in the fixed order.
C40_Witness ==
    /\ SecondaryFetched("t1")
    /\ task["t1"].reordered
    /\ task["t1"].ticket_id = 12
    /\ ExtractAssetIds(task["t1"].context.ticket) = <<PyInt(8), PyInt(7)>>
    /\ task["t1"].context.assets = <<PyDict([id |-> PyInt(7)])>>
    /\ task["t1"].context.errors =
          <<"Failed to fetch client 6: 503 Service Unavailable",
            "Failed to fetch asset 8: 503 Service Unavailable">>

(***************************************************************************)
(* Specifications.                                                         *)
(***************************************************************************)
\* The injector at rest, for the behaviours of the tool loop.
InjAtRest ==
    /\ enabled = TRUE
    /\ cache_ttl = 2
    /\ cache = EmptyCache
    /\ clock = 0
    /\ task = [t \in Tasks |-> IdleTask]
    /\ callers = {}
    /\ hist = NoHistory

Init == ExecInit /\ InjAtRest /\ LibAtRest

Next ==
    \/ \E i \in DOMAIN RunInputs :
          Run(RunInputs[i].messages, RunInputs[i].tools, RunInputs[i].system)
    \/ CallModel
    \/ CallModelRaises
    \/ ReturnAtCap
    \/ ExecuteTool
    \/ ToolReturns

\* One call of AgentExecutor.run.
Spec == Init /\ [][Next]_vars

\* The same with the progress the runtime guarantees: a step that can be
\* taken is taken (the backend and the record store answer or fail).
FairSpec == Spec /\ WF_vars(Next)

InjectInit == ExecInit /\ InjInit /\ LibAtRest

InjectNext ==
    \/ \E t \in Tasks, prompt \in Prompts : Inject(t, prompt)
    \/ \E t \in Tasks : FetchReturns(t)
    \/ \E t \in Tasks : Release(t)
    \/ Tick
    \/ ClearCache

\* One ContextInjector called by concurrent tasks.
InjectSpec == InjectInit /\ [][InjectNext]_vars

\* The same injector with both tasks calling it, so that lookups overlap.
RaceInit ==
    /\ ExecInit
    /\ enabled = TRUE
    /\ cache_ttl \in TtlChoices
    /\ cache = EmptyCache
    /\ clock = 0
    /\ task = [t \in Tasks |-> IdleTask]
    /\ callers = Tasks
    /\ hist = NoHistory
    /\ LibAtRest

\* The prompts of the overlapping calls: "Ticket #1" and "[Ticket: 2]".
RacePrompts ==
    {Text(<<"Ticket", " ", "#", "1">>),
     Text(<<"[", "Ticket", ":", " ", "2", "]">>)}

\* The record store answers every call of a fetch, or fails the fetch of
\* the user.
RacePatterns ==
    {hows \in AnswerPatterns :
        \A l \in Labels : hows[l] = "ok" \/ (l = "user" /\ hows[l] = "raise")}

RaceNext ==
    \/ \E t \in Tasks, prompt \in RacePrompts : Inject(t, prompt)
    \/ \E t \in Tasks : FetchReturnsWith(t, RacePatterns)
    \/ \E t \in Tasks : Release(t)
    \/ Tick

\* One ContextInjector called by two tasks whose lookups interleave at the
\* suspension point of _get_or_fetch_context (injector.py line 118).
RaceSpec == RaceInit /\ [][RaceNext]_vars

\* One injector called by one task, its cache enabled.
FetchInit ==
    /\ ExecInit
    /\ enabled = TRUE
    /\ cache_ttl = 2
    /\ cache = EmptyCache
    /\ clock = 0
    /\ task = [t \in Tasks |-> IdleTask]
    /\ callers = {"t1"}
    /\ hist = NoHistory
    /\ LibAtRest

FetchNext ==
    \/ \E t \in Tasks, prompt \in RacePrompts \cup {TwoAssetsPrompt} :
          Inject(t, prompt)
    \/ \E t \in Tasks : FetchStep(t)
    \/ \E t \in Tasks : Release(t)

\* fetch_full_context with each record-store call answered on its own.
FetchSpec == FetchInit /\ [][FetchNext]_vars

\* One run of the tool loop and one other task of the same event loop,
\* which calls the injector.  The backend and the record store of the tool
\* loop behave by default: the budget of varied rounds is spent.
ServerInit ==
    /\ pc = "idle"
    /\ in_messages = <<>>
    /\ in_tools = None
    /\ in_system = None
    /\ system = None
    /\ current_messages = <<>>
    /\ tool_round = 0
    /\ response = Unbound
    /\ tool_calls = <<>>
    /\ tool_results = <<>>
    /\ awaiting = Unbound
    /\ ret = Unbound
    /\ request = Unbound
    /\ responses = <<>>
    /\ model_failed = FALSE
    /\ exec_log = <<>>
    /\ store_log = <<>>
    /\ varied = MaxVaried
    /\ enabled = TRUE
    /\ cache_ttl = 2
    /\ cache = EmptyCache
    /\ clock = 0
    /\ task = [t \in Tasks |-> IdleTask]
    /\ callers = {"t1"}
    /\ hist = NoHistory
    /\ LibAtRest

\* The event loop runs one task at a time up to its next await: a step of
\* the run or a step of the other task.
ServerNext ==
    \/ Run(RunInputs[1].messages, RunInputs[1].tools, RunInputs[1].system)
    \/ CallModel
    \/ CallModelRaises
    \/ ReturnAtCap
    \/ ExecuteTool
    \/ ToolReturns
    \/ \E prompt \in RacePrompts : Inject("t1", prompt)
    \/ FetchStep("t1")
    \/ Release("t1")

ServerSpec == ServerInit /\ [][ServerNext]_vars

\* The server with its executor constructed, serving one request: the
\* handler chat_completions and the tool loop it starts.  The injector is
\* at rest: no step of the handler or of the loop calls it.
RequestInit == ExecInit /\ InjAtRest /\ LibAtRest

RequestNext ==
    \/ \E body \in RequestBodies : ChatCompletions(body)
    \/ CallModel
    \/ CallModelRaises
    \/ ReturnAtCap
    \/ ExecuteTool
    \/ ToolReturns

RequestSpec == RequestInit /\ [][RequestNext]_vars

ParseInit ==
    /\ ExecInit
    /\ InjAtRest
    /\ lib_pc = "idle"
    /\ parse_arg \in ParseArgs
    /\ parse_ret = [found |-> FALSE, id |-> 0]
    /\ ExtractAtRest
    /\ FixAtRest

ParseNext == ParseCall

ExtractInit ==
    /\ ExecInit
    /\ InjAtRest
    /\ lib_pc = "idle"
    /\ ParseAtRest
    /\ extract_arg \in ExtractArgs
    /\ extract_ret = <<>>
    /\ FixAtRest

ExtractNext == ExtractCall

ShapeInit ==
    /\ ExecInit
    /\ InjAtRest
    /\ lib_pc = "idle"
    /\ ParseAtRest
    /\ extract_arg \in ShapeArgs
    /\ extract_ret = ExtractIds(PyDict(EmptyDict))
    /\ FixAtRest

ShapeNext == ExtractIdsCall

\* Step 2 of one fetch_full_context: the three extractions on one record.
ShapeSpec == ShapeInit /\ [][ShapeNext]_vars

\* The caller's list holds its messages, each a dict of its own.
FixInit ==
    /\ ExecInit
    /\ InjAtRest
    /\ lib_pc = "idle"
    /\ ParseAtRest
    /\ ExtractAtRest
    /\ \E msgs \in FixArgs :
          /\ heap_lists = [r \in {"messages"} |-> [i \in 1..Len(msgs) |-> i]]
          /\ heap_dicts = msgs
          /\ fix_in = msgs
    /\ fix_arg = "messages"
    /\ fix_ret = "messages"
    /\ fix_calls = 0

FixNext == FixCall \/ FixAgain

\* fix_messages called on a list and then on its own result.
FixSpec == FixInit /\ [][FixNext]_vars

\* One call of ContextFetcher._extract_asset_ids.
ExtractSpec == ExtractInit /\ [][ExtractNext]_vars

\* One call of TicketIdParser.parse.
ParseSpec == ParseInit /\ [][ParseNext]_vars

====
